---- MODULE Spec2Model ----
(***************************************************************************)
(* Model of the visual swarm workflows of ai-swarm                         *)
(* (packages/workflows, visual-swarm.ts): the fan-out orchestrator         *)
(* visualSwarm and the per-target retry loop visualEditChild.              *)
(*                                                                         *)
(* A workflow runs synchronously from one await to the next, so every      *)
(* action is the code between two suspension points.  A string is a        *)
(* sequence of tokens; a template literal is the concatenation of its      *)
(* pieces.                                                                 *)
(***************************************************************************)
EXTENDS Integers, Sequences, FiniteSets, TLC

\* ------------------------------------------------------------------------
\* Bounds of the model
\* ------------------------------------------------------------------------
MaxTargets == 3

MaxRetries == 1

MaxChildRetries == 3

MaxConcurrency == 2

MaxResponse == 4

MaxDispatchTargets == 2

MaxDispatchRetries == 1

MaxPlanResponse == 3

MaxGitLines == 2

MaxCaptures == 2

\* concurrency goes down to -MaxNegConcurrency where it is not validated
MaxNegConcurrency == 1

\* the batch loop is followed until its index is below -MaxDescent
MaxDescent == 2

\* health checks followed in one run of the guardian
MaxChecks == 3

\* largest criticalCountBeforeShutdown the guardian is configured with
MaxCriticalCount == 2

\* sub-tasks in the breakdown of a plan
MaxSubTasks == 2

\* largest maxWorkers given to planAndExecute
MaxWorkers == 2

DEFAULT_CONCURRENCY == 4

DefaultMaxRetries == 3

\* ------------------------------------------------------------------------
\* JavaScript values
\* ------------------------------------------------------------------------
\* the value of an absent optional string field
Undefined == <<"\\undefined">>

\* the value of an absent optional list field
UndefinedList == <<Undefined>>

\* a || b on strings: undefined and '' are falsy
OrElse(a, b) == IF a = Undefined \/ a = <<>> THEN b ELSE a

Min(a, b) == IF a < b THEN a ELSE b

RECURSIVE Join(_, _)
\* Array.prototype.join
Join(list, sep) ==
    IF list = <<>> THEN <<>>
    ELSE IF Len(list) = 1 THEN list[1]
    ELSE list[1] \o sep \o Join(Tail(list), sep)

\* Array.prototype.slice(start, end), start and end being integers
Slice(list, start, end) ==
    LET n == Len(list)
        from == IF start < 0 THEN (IF n + start < 0 THEN 0 ELSE n + start)
                ELSE Min(start, n)
        to == IF end < 0 THEN (IF n + end < 0 THEN 0 ELSE n + end)
              ELSE Min(end, n)
    IN  IF to <= from THEN <<>> ELSE [k \in 1..(to - from) |-> list[from + k]]

RECURSIVE Filter(_, _)
\* Array.prototype.filter on TargetResults, by the value of success
Filter(list, wanted) ==
    IF list = <<>> THEN <<>>
    ELSE IF list[1].success = wanted
         THEN <<list[1]>> \o Filter(Tail(list), wanted)
         ELSE Filter(Tail(list), wanted)

\* ------------------------------------------------------------------------
\* State
\* ------------------------------------------------------------------------
VARIABLES
    targets,        \* input.targets
    maxRetries,     \* input.maxRetries
    concurrency,    \* input.concurrency
    fullEnv,        \* the renderer may fail and answers may omit optional fields
    spc,            \* position of visualSwarm
    cancelled,      \* the flag set by the cancelSwarm handler
    i,              \* loop index of the batch loop
    batch,          \* child ids of the batch being awaited (batchPromises)
    results,        \* results gathered so far
    child,          \* child id -> state of that visualEditChild
    launched,       \* executeChild calls made: child id, target, batch start
    sent,           \* sendNotification calls made
    output,         \* what visualSwarm returned
    cancelPoint,    \* where the run was when the signal was handled
    vw,             \* a call of verifyWithAI or parseVerificationResult
    portal,         \* the answers of the dispatch route to POST and DELETE
    act,            \* calls of parseTargets, applyGeminiEdit and
                    \* captureVisualScreenshot made outside a run
    guardian,       \* the HealthGuardianService and the containers it controls
    pae             \* a run of planAndExecute

vars == <<targets, maxRetries, concurrency, fullEnv, spc, cancelled, i, batch,
          results, child, launched, sent, output, cancelPoint, vw, portal, act,
          guardian, pae>>

\* the target of index k (1-based) of a request
TargetPage(k) == [url |-> <<"/page/", ToString(k)>>,
                  filePath |-> <<"src/page", ToString(k), ".tsx">>]

ChildIds == 0..(MaxTargets - 1)

NoOutput == [returned |-> FALSE]

NoCancel == [seen |-> FALSE]

\* a child workflow that has not been started
Idle == [pc |-> "idle"]

NoPortal == [post |-> "none", del |-> "none"]

NoCall == [pc |-> "start"]

\* no HealthGuardianService has been constructed
NoGuardian == [pc |-> "none"]

\* no planAndExecute workflow has been started
NoPlan == [pc |-> "none"]

InitCommon ==
    /\ spc = "start"
    /\ cancelled = FALSE
    /\ i = 0
    /\ batch = <<>>
    /\ results = <<>>
    /\ child = [c \in ChildIds |-> Idle]
    /\ launched = <<>>
    /\ sent = <<>>
    /\ output = NoOutput
    /\ cancelPoint = NoCancel
    /\ vw = [pc |-> "start"]
    /\ portal = NoPortal
    /\ act = NoCall
    /\ guardian = NoGuardian
    /\ pae = NoPlan

\* a swarm request: several targets; edits and verdicts may fail, the
\* renderer answers and every answer is complete
Init ==
    /\ \E n \in 0..MaxTargets : targets = [k \in 1..n |-> TargetPage(k)]
    /\ maxRetries \in 0..MaxRetries
    /\ concurrency \in 1..MaxConcurrency
    /\ fullEnv = FALSE
    /\ InitCommon

\* ------------------------------------------------------------------------
\* verifyWithAI and parseVerificationResult
\* ------------------------------------------------------------------------
\* JSON values
JUndefined == [type |-> "undefined"]

JBool(b) == [type |-> "boolean", val |-> b]

JNum(n) == [type |-> "number", val |-> n]

JStr(str) == [type |-> "string", val |-> str]

JArr(list) == [type |-> "array", val |-> list]

\* Boolean(v)
Truthy(v) ==
    CASE v.type = "undefined" -> FALSE
      [] v.type = "boolean" -> v.val
      [] v.type = "number" -> v.val # 0
      [] v.type = "string" -> v.val # <<>>
      [] v.type = "array" -> TRUE

\* the text between the braces of the object stringified when the judge fails
HeuristicBody == "\"passed\":true,\"confidence\":0.6,\"observation\":...unavailable..."

\* texts a judge may put between the braces of an object
JudgeBodies ==
    {"\"passed\":true,\"confidence\":0.9,...",
     "\"passed\":false,\"confidence\":0.8,\"issues\":[...],...",
     "\"passed\":\"yes\",\"confidence\":\"high\""}

\* prose a judge may write around or instead of an object
Prose == {"The check PASSED.", "It looks wrong."}

\* the tokens of a judge response
Tokens == {"{", "}"} \cup JudgeBodies \cup Prose

\* what a judge can answer: any text of at most MaxResponse tokens
Responses == UNION {[1..n -> Tokens] : n \in 0..MaxResponse}

\* the members of the object whose text between the braces is body
ObjectOf(body) ==
    CASE body = HeuristicBody ->
            [passed |-> JBool(TRUE), confidence |-> JNum(60),
             observation |-> JStr(<<"Vision verification unavailable. Screenshot captured successfully.">>),
             issues |-> JArr(<<>>),
             suggestions |-> JArr(<< <<"Consider manually verifying the visual changes">> >>)]
      [] body = "\"passed\":true,\"confidence\":0.9,..." ->
            [passed |-> JBool(TRUE), confidence |-> JNum(90),
             observation |-> JStr(<<"styling applied">>),
             issues |-> JArr(<<>>), suggestions |-> JArr(<<>>)]
      [] body = "\"passed\":false,\"confidence\":0.8,\"issues\":[...],..." ->
            [passed |-> JBool(FALSE), confidence |-> JNum(80),
             observation |-> JStr(<<"styling missing">>),
             issues |-> JArr(<< <<"wrong colour">>, <<"wrong padding">> >>),
             suggestions |-> JArr(<< <<"try again">> >>)]
      [] body = "\"passed\":\"yes\",\"confidence\":\"high\"" ->
            [passed |-> JStr(<<"yes">>), confidence |-> JStr(<<"high">>),
             observation |-> JUndefined, issues |-> JUndefined,
             suggestions |-> JUndefined]

\* the object {} has no member
EmptyObject ==
    [passed |-> JUndefined, confidence |-> JUndefined,
     observation |-> JUndefined, issues |-> JUndefined,
     suggestions |-> JUndefined]

\* JSON.parse of a text that starts with a brace
JsonParse(text) ==
    IF text = <<"{", "}">> THEN [ok |-> TRUE, value |-> EmptyObject]
    ELSE IF Len(text) = 3 /\ text[1] = "{" /\ text[3] = "}"
            /\ text[2] \in JudgeBodies \cup {HeuristicBody}
         THEN [ok |-> TRUE, value |-> ObjectOf(text[2])]
         ELSE [ok |-> FALSE]

\* response.match(/\{[\s\S]*\}/): from the first { to the last } after it
JsonMatch(response) ==
    LET opens == {k \in 1..Len(response) : response[k] = "{"}
    IN  IF opens = {} THEN [found |-> FALSE]
        ELSE LET first == CHOOSE k \in opens : \A x \in opens : k <= x
                 closes == {k \in (first + 1)..Len(response) : response[k] = "}"}
             IN  IF closes = {} THEN [found |-> FALSE]
                 ELSE LET last == CHOOSE k \in closes : \A x \in closes : x <= k
                      IN  [found |-> TRUE,
                           text |-> [k \in 1..(last - first + 1) |->
                                        response[first + k - 1]]]

\* token.toLowerCase() includes 'pass', 'success' or 'correctly applied'
HasKeyword(token) ==
    token \in {HeuristicBody,
               "\"passed\":true,\"confidence\":0.9,...",
               "\"passed\":false,\"confidence\":0.8,\"issues\":[...],...",
               "\"passed\":\"yes\",\"confidence\":\"high\"",
               "The check PASSED."}

\* the verdict built from a parsed object
VerdictOf(parsed) ==
    [passed |-> Truthy(parsed.passed),
     confidence |-> IF parsed.confidence.type = "number"
                    THEN parsed.confidence.val ELSE 50,
     observation |-> IF Truthy(parsed.observation) THEN parsed.observation.val
                     ELSE <<"No observation provided">>,
     issues |-> IF parsed.issues.type = "array" THEN parsed.issues.val
                ELSE <<>>,
     suggestions |-> IF parsed.suggestions.type = "array"
                     THEN parsed.suggestions.val ELSE <<>>]

\* KeywordVerdict that always notes the parse failure
KeywordVerdictAlwaysNotes(response) ==
    [passed |-> \E k \in 1..Len(response) : HasKeyword(response[k]),
     confidence |-> 50,
     observation |-> Slice(response, 0, 500),
     issues |-> << <<"Could not parse verification result">> >>,
     suggestions |-> << <<"Manually verify the changes">> >>]

\* the fallback of parseVerificationResult: keywords of the raw text
KeywordVerdict(response) ==
    LET passed == \E k \in 1..Len(response) : HasKeyword(response[k])
    IN  [passed |-> passed,
         confidence |-> 50,
         observation |-> Slice(response, 0, 500),
         issues |-> IF passed THEN <<>>
                    ELSE << <<"Could not parse verification result">> >>,
         suggestions |-> << <<"Manually verify the changes">> >>]

parseVerificationResult(response) ==
    LET jsonMatch == JsonMatch(response)
    IN  IF jsonMatch.found /\ JsonParse(jsonMatch.text).ok
        THEN VerdictOf(JsonParse(jsonMatch.text).value)
        ELSE KeywordVerdict(response)

\* what the steps of one verifyWithAI call can do: writeFile, the auth
\* lookup (the judge is not reached when it throws), the judge, unlink
VerifyEnvs ==
    {[write |-> "throws", auth |-> "none", judge |-> "none", unlink |-> "none"]}
    \cup {[write |-> "ok", auth |-> "throws", judge |-> "none", unlink |-> u] :
            u \in {"ok", "throws"}}
    \cup {[write |-> "ok", auth |-> a, judge |-> "throws", unlink |-> u] :
            a \in {"oauth", "zai with key", "zai without key", "other"},
            u \in {"ok", "throws"}}

\* the CLI the judge is invoked through
JudgeCli(auth) ==
    IF auth \in {"oauth", "zai with key"} THEN "claude" ELSE "gemini"

\* JSON.stringify of the heuristic verdict
HeuristicResponse == <<"{", HeuristicBody, "}">>

\* the verdict of the outer catch
ErrorVerdict(errorMessage) ==
    [passed |-> FALSE, confidence |-> 0,
     observation |-> <<"Verification error: ">> \o errorMessage,
     issues |-> << <<"AI verification failed to complete">> >>,
     suggestions |-> << <<"Retry verification or manually check the changes">> >>]

\* verifyWithAI without the outer catch
verifyWithAIRethrows(env, answer) ==
    IF env.write = "throws"
    THEN [raised |-> TRUE, tempFile |-> FALSE]
    ELSE LET response == IF env.auth = "throws" \/ env.judge = "throws"
                         THEN HeuristicResponse
                         ELSE answer
         IN  [raised |-> FALSE, tempFile |-> env.unlink = "throws",
              verdict |-> parseVerificationResult(response)]

\* verifyWithAI with a judge failure handled by the outer catch
verifyWithAINoFallback(env, answer) ==
    IF env.write = "throws" \/ env.auth = "throws" \/ env.judge = "throws"
    THEN [raised |-> FALSE, tempFile |-> env.unlink = "throws",
          verdict |-> ErrorVerdict(<<"step failed">>)]
    ELSE [raised |-> FALSE, tempFile |-> env.unlink = "throws",
          verdict |-> parseVerificationResult(answer)]

\* verifyWithAI: env says what each step does, answer is the text of the
\* judge when env.judge = "answers"
verifyWithAI(env, answer) ==
    IF env.write = "throws"
    THEN [raised |-> FALSE, tempFile |-> FALSE,
          verdict |-> ErrorVerdict(<<"ENOSPC: no space left on device">>)]
    ELSE LET response == IF env.auth = "throws" \/ env.judge = "throws"
                         THEN HeuristicResponse
                         ELSE answer
         IN  [raised |-> FALSE, tempFile |-> env.unlink = "throws",
              verdict |-> parseVerificationResult(response)]

\* the verdicts of verifyWithAI when a step of it fails
VerifierVerdicts == {verifyWithAI(env, <<>>).verdict : env \in VerifyEnvs}

\* a call of verifyWithAI is made and runs to its end
VwRun ==
    /\ vw.pc = "start"
    /\ \/ \E env \in VerifyEnvs :
            vw' = [pc |-> "verified", env |-> env, answer |-> <<>>,
                   out |-> verifyWithAI(env, <<>>)]
       \/ \E a \in {"oauth", "zai with key", "zai without key", "other"},
             u \in {"ok", "throws"}, answer \in Responses :
            LET env == [write |-> "ok", auth |-> a, judge |-> "answers",
                        unlink |-> u]
            IN  vw' = [pc |-> "verified", env |-> env, answer |-> answer,
                       out |-> verifyWithAI(env, answer)]
    /\ UNCHANGED <<pae, guardian, act, portal, targets, maxRetries, concurrency, fullEnv, spc, cancelled,
                   i, batch, results, child, launched, sent, output,
                   cancelPoint>>

\* parseVerificationResult is applied to a response
VwParse ==
    /\ vw.pc = "start"
    /\ \E response \in Responses :
          vw' = [pc |-> "parsed", response |-> response,
                 verdict |-> parseVerificationResult(response)]
    /\ UNCHANGED <<pae, guardian, act, portal, targets, maxRetries, concurrency, fullEnv, spc, cancelled,
                   i, batch, results, child, launched, sent, output,
                   cancelPoint>>

NextVerifier == VwRun \/ VwParse

\* ------------------------------------------------------------------------
\* parseTargets
\* ------------------------------------------------------------------------
\* a path is its segments, the last two being the stem and the extension
PageFile == <<"apps", "portal", "src", "app", "page", ".tsx">>

NavFile == <<"apps", "portal", "src", "components", "Nav", ".tsx">>

\* what the enumeration of the project can do: readdir throws, or walkDir
\* collects a list
FileSystems ==
    {[throws |-> TRUE, files |-> <<>>]}
    \cup {[throws |-> FALSE, files |-> list] :
            list \in {<<>>, <<PageFile>>, <<NavFile, PageFile>>}}

\* discoverComponentFiles: a readdir that throws is caught in walkDir and
\* leaves the list as it is, here empty
discoverComponentFiles(fs) ==
    IF fs.throws THEN <<>> ELSE Slice(fs.files, 0, 100)

\* the texts a planner may put between the braces of an object
PlannerBodies ==
    {"\"stylingInstruction\":\"round buttons\",\"targets\":[{page}],\"confidence\":0.9",
     "\"targets\":[{no filePath},{Nav.tsx}],\"confidence\":\"high\"",
     "\"note\":\"cannot tell\""}

PlannerProse == {"Here is the plan:"}

PlannerTokens == {"{", "}"} \cup PlannerBodies \cup PlannerProse

PlannerResponses == UNION {[1..n -> PlannerTokens] : n \in 0..MaxPlanResponse}

\* the members of the object whose text between the braces is body
PlanObjectOf(body) ==
    CASE body = "\"stylingInstruction\":\"round buttons\",\"targets\":[{page}],\"confidence\":0.9" ->
            [stylingInstruction |-> JStr(<<"round buttons">>),
             targets |-> JArr(<<[url |-> <<"http://localhost:3000/">>,
                                 filePath |-> <<"src", "app", "page", ".tsx">>,
                                 componentName |-> <<"Page">>]>>),
             confidence |-> JNum(90)]
      [] body = "\"targets\":[{no filePath},{Nav.tsx}],\"confidence\":\"high\"" ->
            [stylingInstruction |-> JUndefined,
             targets |-> JArr(<<[url |-> <<"http://localhost:3000/x">>,
                                 filePath |-> <<>>,
                                 componentName |-> Undefined],
                                [url |-> <<>>,
                                 filePath |-> <<"Nav", ".tsx">>,
                                 componentName |-> Undefined]>>),
             confidence |-> JStr(<<"high">>)]
      [] body = "\"note\":\"cannot tell\"" ->
            [stylingInstruction |-> JUndefined, targets |-> JUndefined,
             confidence |-> JUndefined]

\* JSON.parse of a text that starts with a brace
PlanJsonParse(text) ==
    IF text = <<"{", "}">>
    THEN [ok |-> TRUE,
          value |-> [stylingInstruction |-> JUndefined,
                     targets |-> JUndefined, confidence |-> JUndefined]]
    ELSE IF Len(text) = 3 /\ text[1] = "{" /\ text[3] = "}"
            /\ text[2] \in PlannerBodies
         THEN [ok |-> TRUE, value |-> PlanObjectOf(text[2])]
         ELSE [ok |-> FALSE]

\* f.endsWith(searchPath)
EndsWith(f, searchPath) ==
    /\ Len(searchPath) <= Len(f)
    /\ \A k \in 1..Len(searchPath) :
          f[Len(f) - Len(searchPath) + k] = searchPath[k]

\* basename(path): the stem and the extension
Basename(path) == Slice(path, Len(path) - 2, Len(path))

\* availableFiles.find(test): the first file that passes, or null
Find(availableFiles, hits) ==
    IF hits = {} THEN <<>>
    ELSE availableFiles[CHOOSE k \in hits : \A x \in hits : k <= x]

findBestMatch(searchPath, availableFiles) ==
    LET searchName == Basename(searchPath)
        Indexes(Test(_)) ==
            {k \in 1..Len(availableFiles) : Test(availableFiles[k])}
        Exact(f) == EndsWith(f, searchPath) \/ f = searchPath
        ByName(f) == Basename(f) = searchName
        Partial(f) == \E k \in 1..Len(f) : f[k] = searchName[1]
        exact == Find(availableFiles, Indexes(Exact))
        byName == Find(availableFiles, Indexes(ByName))
        partial == Find(availableFiles, Indexes(Partial))
    IN  IF exact # <<>> THEN exact
        ELSE IF byName # <<>> THEN byName
        ELSE partial

\* the target pushed for an entry of parsed.targets that has a filePath
NormalTarget(target, availableFiles) ==
    [url |-> OrElse(target.url, <<"http://localhost:3000">>),
     filePath |-> OrElse(findBestMatch(target.filePath, availableFiles),
                         target.filePath),
     componentName |-> target.componentName]

RECURSIVE NormalTargets(_, _)
NormalTargets(list, availableFiles) ==
    IF list = <<>> THEN <<>>
    ELSE IF Head(list).filePath # <<>>
         THEN <<NormalTarget(Head(list), availableFiles)>>
              \o NormalTargets(Tail(list), availableFiles)
         ELSE NormalTargets(Tail(list), availableFiles)

parseResponse(response, availableFiles) ==
    LET jsonMatch == JsonMatch(response)
    IN  IF jsonMatch.found /\ PlanJsonParse(jsonMatch.text).ok
        THEN LET parsed == PlanJsonParse(jsonMatch.text).value
             IN  [stylingInstruction |->
                      IF Truthy(parsed.stylingInstruction)
                      THEN parsed.stylingInstruction.val ELSE response,
                  targets |->
                      IF parsed.targets.type = "array"
                      THEN NormalTargets(parsed.targets.val, availableFiles)
                      ELSE <<>>,
                  confidence |->
                      IF parsed.confidence.type = "number"
                      THEN parsed.confidence.val ELSE 70]
        ELSE [stylingInstruction |-> response, targets |-> <<>>,
              confidence |-> 30]

\* parseTargets: fs is what the file enumeration does, cli what the planner
\* does, answer the text of the planner when cli = "answers"
parseTargets(input, fs, cli, answer) ==
    LET componentFiles == discoverComponentFiles(fs)
    IN  IF cli = "throws"
        THEN [stylingInstruction |-> input.userInstruction, targets |-> <<>>,
              confidence |-> 0]
        ELSE parseResponse(answer, componentFiles)

\* a call of parseTargets is made and runs to its end
PtRun ==
    /\ act.pc = "start"
    /\ \E fs \in FileSystems, cli \in {"throws", "answers"},
          answer \in PlannerResponses :
          LET input == [userInstruction |-> <<"make all the buttons round">>]
          IN  /\ cli = "throws" => answer = <<>>
              /\ act' = [pc |-> "targets parsed", input |-> input, fs |-> fs,
                          cli |-> cli, answer |-> answer,
                          out |-> parseTargets(input, fs, cli, answer)]
    /\ UNCHANGED <<pae, guardian, portal, vw, targets, maxRetries, concurrency, fullEnv, spc,
                   cancelled, i, batch, results, child, launched, sent, output,
                   cancelPoint>>

\* ------------------------------------------------------------------------
\* applyGeminiEdit
\* ------------------------------------------------------------------------
\* the lines git may print: a file name or an empty line
GitLines == {<<>>, <<"src/app/page.tsx">>, <<"src/app/globals.css">>}

\* what a git command can do: exit with an error, or print lines
GitOutcomes ==
    {[throws |-> TRUE, stdout |-> <<>>]}
    \cup {[throws |-> FALSE, stdout |-> out] :
            out \in UNION {[1..n -> GitLines] : n \in 0..MaxGitLines}}

RECURSIVE FilterBoolean(_)
\* stdout.trim().split('\n').filter(Boolean): the lines that are not empty
FilterBoolean(lines) ==
    IF lines = <<>> THEN <<>>
    ELSE IF Head(lines) # <<>>
         THEN <<Head(lines)>> \o FilterBoolean(Tail(lines))
         ELSE FilterBoolean(Tail(lines))

\* applyGeminiEdit: cli is what invokeGeminiCLI does, diff and staged what
\* the two git commands do
applyGeminiEdit(input, cli, diff, staged) ==
    IF cli = "throws"
    THEN [raised |-> FALSE, success |-> FALSE, filesChanged |-> <<>>,
          error |-> <<"Gemini CLI timed out">>, llmOutput |-> Undefined]
    ELSE [raised |-> FALSE, success |-> TRUE,
          filesChanged |->
              IF ~diff.throws THEN FilterBoolean(diff.stdout)
              ELSE IF ~staged.throws THEN FilterBoolean(staged.stdout)
              ELSE <<input.filePath>>,
          error |-> Undefined, llmOutput |-> <<"done">>]

\* a call of applyGeminiEdit is made and runs to its end
GeRun ==
    /\ act.pc = "start"
    /\ \E cli \in {"throws", "answers"}, diff \in GitOutcomes,
          staged \in GitOutcomes :
          LET input == [filePath |-> <<"/apps/portal/src/app/page.tsx">>]
          IN  /\ cli = "throws" => diff.throws /\ staged.throws
              /\ ~diff.throws => staged.throws
              /\ act' = [pc |-> "edited", input |-> input, cli |-> cli,
                         diff |-> diff, staged |-> staged,
                         out |-> applyGeminiEdit(input, cli, diff, staged)]
    /\ UNCHANGED <<pae, guardian, portal, vw, targets, maxRetries, concurrency, fullEnv, spc,
                   cancelled, i, batch, results, child, launched, sent, output,
                   cancelPoint>>

\* ------------------------------------------------------------------------
\* The activities, as the workflow sees them
\* ------------------------------------------------------------------------
\* the error text of the edit activity in attempt a
EditError(a) == <<"gemini error #", ToString(a)>>

\* the error text of the screenshot activity in attempt a
RenderError(a) == <<"playwright error #", ToString(a)>>

\* the image rendered in attempt a
Image(a) == <<"png #", ToString(a)>>

\* what applyGeminiEdit can resolve to in attempt a
EditOutcomes(a) ==
    {[success |-> TRUE, error |-> Undefined],
     [success |-> FALSE, error |-> EditError(a)]}
    \cup (IF fullEnv THEN {[success |-> FALSE, error |-> <<>>]} ELSE {})

\* what captureVisualScreenshot can resolve to in attempt a
RenderOutcomes(a) ==
    {[success |-> TRUE, base64 |-> Image(a), error |-> Undefined]}
    \cup (IF fullEnv
          THEN {[success |-> FALSE, base64 |-> Undefined, error |-> RenderError(a)],
                [success |-> TRUE, base64 |-> Undefined, error |-> Undefined],
                [success |-> FALSE, base64 |-> Undefined, error |-> <<>>]}
          ELSE {})

\* what verifyWithAI can resolve to in attempt a
VerifyOutcomes(a) ==
    {[passed |-> TRUE, confidence |-> 90,
      observation |-> <<"styling applied">>,
      issues |-> <<>>, suggestions |-> <<>>],
     [passed |-> FALSE, confidence |-> 80,
      observation |-> <<"styling missing">>,
      issues |-> << <<"issue A #", ToString(a)>>, <<"issue B #", ToString(a)>> >>,
      suggestions |-> << <<"try again">> >>]}
    \cup (IF fullEnv
          THEN {[passed |-> FALSE, confidence |-> 50,
                 observation |-> <<"unclear">>,
                 issues |-> <<>>, suggestions |-> <<>>]}
               \cup VerifierVerdicts
          ELSE {})

\* ------------------------------------------------------------------------
\* captureVisualScreenshot
\* ------------------------------------------------------------------------
\* the file the rendering service writes in call n
ScreenshotFile(n) == <<"/tmp/screenshot-", ToString(n), ".png">>

\* what captureScreenshotAsBase64 or captureAuthenticatedScreenshot does in
\* call n: it rejects, reports a failure, or reports an image, with or
\* without the path of the file it wrote
ServiceOutcomes(n) ==
    {[throws |-> TRUE, success |-> FALSE, base64 |-> Undefined,
      title |-> Undefined, filePath |-> Undefined, error |-> Undefined],
     [throws |-> FALSE, success |-> FALSE, base64 |-> Undefined,
      title |-> Undefined, filePath |-> Undefined,
      error |-> <<"navigation timeout">>],
     [throws |-> FALSE, success |-> FALSE, base64 |-> Undefined,
      title |-> Undefined, filePath |-> Undefined, error |-> Undefined],
     [throws |-> FALSE, success |-> TRUE, base64 |-> Image(n),
      title |-> <<"Dashboard">>, filePath |-> ScreenshotFile(n),
      error |-> Undefined],
     [throws |-> FALSE, success |-> TRUE, base64 |-> Image(n),
      title |-> Undefined, filePath |-> Undefined, error |-> Undefined],
     [throws |-> FALSE, success |-> TRUE, base64 |-> Undefined,
      title |-> <<"Dashboard">>, filePath |-> ScreenshotFile(n),
      error |-> Undefined]}

\* the files on disk once the service has answered
AfterService(disk, result) ==
    IF result.filePath # Undefined THEN disk \cup {result.filePath} ELSE disk

\* deleteScreenshot(filePath)
deleteScreenshot(disk, filePath) == disk \ {filePath}

\* captureVisualScreenshot that leaves the file of the service on disk
captureVisualScreenshotKeepsFile(disk, result) ==
    IF result.throws
    THEN [raised |-> FALSE, disk |-> disk,
          out |-> [success |-> FALSE, base64 |-> Undefined,
                   title |-> Undefined,
                   error |-> <<"connect ECONNREFUSED">>]]
    ELSE IF ~result.success
    THEN [raised |-> FALSE, disk |-> AfterService(disk, result),
          out |-> [success |-> FALSE, base64 |-> Undefined,
                   title |-> Undefined,
                   error |-> OrElse(result.error,
                                    <<"Screenshot capture failed">>)]]
    ELSE [raised |-> FALSE, disk |-> AfterService(disk, result),
          out |-> [success |-> TRUE, base64 |-> result.base64,
                   title |-> result.title, error |-> Undefined]]

\* captureVisualScreenshot: disk is the set of files before the call, result
\* what the rendering service does
captureVisualScreenshot(disk, result) ==
    IF result.throws
    THEN [raised |-> FALSE, disk |-> disk,
          out |-> [success |-> FALSE, base64 |-> Undefined,
                   title |-> Undefined,
                   error |-> <<"connect ECONNREFUSED">>]]
    ELSE IF ~result.success
    THEN [raised |-> FALSE, disk |-> AfterService(disk, result),
          out |-> [success |-> FALSE, base64 |-> Undefined,
                   title |-> Undefined,
                   error |-> OrElse(result.error,
                                    <<"Screenshot capture failed">>)]]
    ELSE [raised |-> FALSE,
          disk |-> IF result.filePath # Undefined
                   THEN deleteScreenshot(AfterService(disk, result),
                                         result.filePath)
                   ELSE AfterService(disk, result),
          out |-> [success |-> TRUE, base64 |-> result.base64,
                   title |-> result.title, error |-> Undefined]]

\* a call of captureVisualScreenshot is made and runs to its end
CsRun ==
    /\ \/ act.pc = "start"
       \/ act.pc = "captured" /\ act.calls < MaxCaptures
    /\ LET n == IF act.pc = "start" THEN 1 ELSE act.calls + 1
           disk == IF act.pc = "start" THEN {} ELSE act.disk
           written == IF act.pc = "start" THEN 0 ELSE act.written
       IN  \E result \in ServiceOutcomes(n) :
              LET call == captureVisualScreenshot(disk, result)
              IN  act' = [pc |-> "captured", calls |-> n,
                          written |-> IF result.filePath # Undefined
                                      THEN written + 1 ELSE written,
                          disk |-> call.disk, raised |-> call.raised,
                          out |-> call.out]
    /\ UNCHANGED <<pae, guardian, portal, vw, targets, maxRetries, concurrency, fullEnv, spc,
                   cancelled, i, batch, results, child, launched, sent, output,
                   cancelPoint>>

\* ------------------------------------------------------------------------
\* visualEditChild
\* ------------------------------------------------------------------------
\* no activity call is in flight
NoArgs == [call |-> "none"]

\* one verdict of the history as the feedback shows it; index is 0-based
FeedbackEntry(v, index) ==
    <<"Attempt ", ToString(index + 1), ": ",
      IF v.passed THEN "PASSED" ELSE "FAILED", "\n", "Observation: ">>
    \o v.observation
    \o <<"\n", "Issues: ">>
    \o OrElse(Join(v.issues, <<", ">>), <<"None">>)
    \o <<"\n", "Suggestions: ">>
    \o OrElse(Join(v.suggestions, <<", ">>), <<"None">>)

\* previousFeedback built from the last verdict only
previousFeedbackLastOnly(verificationHistory) ==
    IF Len(verificationHistory) > 0
    THEN FeedbackEntry(verificationHistory[Len(verificationHistory)],
                       Len(verificationHistory) - 1)
    ELSE Undefined

\* the feedback given to applyGeminiEdit: undefined while the history is empty
previousFeedback(verificationHistory) ==
    IF Len(verificationHistory) > 0
    THEN Join([k \in 1..Len(verificationHistory) |->
                  FeedbackEntry(verificationHistory[k], k - 1)],
              <<"\n\n">>)
    ELSE Undefined

\* the locals of a visualEditChild at its first statement
ChildStart(target) ==
    [pc |-> "start", target |-> target, attempt |-> 1,
     verificationHistory |-> <<>>, lastError |-> Undefined,
     finalScreenshot |-> Undefined, editCalls |-> 0, renderCalls |-> 0,
     verifyCalls |-> 0, log |-> <<>>, args |-> NoArgs]

\* the return statement after the loop: all retries exhausted
Exhausted(st) ==
    [pc |-> "returned",
     editCalls |-> st.editCalls, renderCalls |-> st.renderCalls,
     verifyCalls |-> st.verifyCalls, log |-> st.log,
     result |-> [url |-> st.target.url, filePath |-> st.target.filePath,
                 success |-> FALSE, attempts |-> maxRetries,
                 finalScreenshot |-> st.finalScreenshot,
                 error |-> OrElse(st.lastError, <<"Max retries exceeded">>),
                 verificationHistory |-> st.verificationHistory]]

\* Passed reporting the budget instead of the attempt
PassedReportsBudget(st) ==
    [pc |-> "returned",
     editCalls |-> st.editCalls, renderCalls |-> st.renderCalls,
     verifyCalls |-> st.verifyCalls, log |-> st.log,
     result |-> [url |-> st.target.url, filePath |-> st.target.filePath,
                 success |-> TRUE, attempts |-> maxRetries,
                 finalScreenshot |-> st.finalScreenshot,
                 error |-> Undefined,
                 verificationHistory |-> st.verificationHistory]]

\* the return statement inside the loop: verification passed
Passed(st) ==
    [pc |-> "returned",
     editCalls |-> st.editCalls, renderCalls |-> st.renderCalls,
     verifyCalls |-> st.verifyCalls, log |-> st.log,
     result |-> [url |-> st.target.url, filePath |-> st.target.filePath,
                 success |-> TRUE, attempts |-> st.attempt,
                 finalScreenshot |-> st.finalScreenshot,
                 error |-> Undefined,
                 verificationHistory |-> st.verificationHistory]]

\* LoopHead with the loop test attempt < maxRetries
LoopHeadOffByOne(st) ==
    IF st.attempt < maxRetries
    THEN [st EXCEPT !.pc = "edit", !.editCalls = @ + 1,
                    !.args = [call |-> "applyGeminiEdit",
                              filePath |-> st.target.filePath,
                              previousFeedback |->
                                  previousFeedback(st.verificationHistory)]]
    ELSE Exhausted(st)

\* the head of the for loop: call applyGeminiEdit or leave the loop
LoopHead(st) ==
    IF st.attempt <= maxRetries
    THEN [st EXCEPT !.pc = "edit", !.editCalls = @ + 1,
                    !.args = [call |-> "applyGeminiEdit",
                              filePath |-> st.target.filePath,
                              previousFeedback |->
                                  previousFeedback(st.verificationHistory)]]
    ELSE Exhausted(st)

\* continue: attempt++ and back to the head of the loop
Continue(st) == LoopHead([st EXCEPT !.attempt = @ + 1])

\* the entry pushed when the edit failed
EditFailedEntry(lastError) ==
    [passed |-> FALSE, confidence |-> 0,
     observation |-> <<"Edit failed: ">> \o lastError,
     issues |-> << <<"Gemini edit failed to complete">> >>,
     suggestions |-> UndefinedList]

\* RenderFailedEntry with the entry marked as passed
RenderFailedEntryPassed(lastError) ==
    [passed |-> TRUE, confidence |-> 0,
     observation |-> <<"Screenshot failed: ">> \o lastError,
     issues |-> << <<"Could not capture screenshot for verification">> >>,
     suggestions |-> UndefinedList]

\* the entry pushed when the screenshot failed
RenderFailedEntry(lastError) ==
    [passed |-> FALSE, confidence |-> 0,
     observation |-> <<"Screenshot failed: ">> \o lastError,
     issues |-> << <<"Could not capture screenshot for verification">> >>,
     suggestions |-> UndefinedList]

\* log records what each activity call of the child resolved to (history only)
Logged(st, call, ok, error) ==
    [st EXCEPT !.log = Append(@, [call |-> call, attempt |-> st.attempt,
                                  ok |-> ok, error |-> error])]

\* AfterEdit keeping the error of the first failure
AfterEditKeepsFirstError(st, editResult) ==
    IF ~editResult.success
    THEN LET lastError == OrElse(st.lastError,
                                 OrElse(editResult.error, <<"Edit failed">>))
         IN  Continue([st EXCEPT
                 !.lastError = lastError,
                 !.verificationHistory = Append(@, EditFailedEntry(lastError))])
    ELSE [st EXCEPT !.pc = "render", !.renderCalls = @ + 1,
                    !.args = [call |-> "captureVisualScreenshot",
                              url |-> st.target.url,
                              authenticated |-> FALSE]]

\* the code after applyGeminiEdit resolved to editResult
AfterEdit(st, editResult) ==
    IF ~editResult.success
    THEN LET lastError == OrElse(editResult.error, <<"Edit failed">>)
         IN  Continue([st EXCEPT
                 !.lastError = lastError,
                 !.verificationHistory = Append(@, EditFailedEntry(lastError))])
    ELSE [st EXCEPT !.pc = "render", !.renderCalls = @ + 1,
                    !.args = [call |-> "captureVisualScreenshot",
                              url |-> st.target.url,
                              authenticated |-> FALSE]]

\* AfterRender that asks for a verdict whenever the renderer reports success
AfterRenderNoImageCheck(st, screenshotResult) ==
    IF ~screenshotResult.success
    THEN LET lastError == OrElse(screenshotResult.error,
                                 <<"Screenshot capture failed">>)
         IN  Continue([st EXCEPT
                 !.lastError = lastError,
                 !.verificationHistory = Append(@, RenderFailedEntry(lastError))])
    ELSE [st EXCEPT !.pc = "verify", !.verifyCalls = @ + 1,
                    !.finalScreenshot = screenshotResult.base64,
                    !.args = [call |-> "verifyWithAI",
                              screenshotBase64 |-> screenshotResult.base64,
                              filePath |-> st.target.filePath,
                              url |-> st.target.url]]

\* AfterRender that keeps the first screenshot
AfterRenderKeepsFirst(st, screenshotResult) ==
    IF ~screenshotResult.success
       \/ screenshotResult.base64 = Undefined \/ screenshotResult.base64 = <<>>
    THEN LET lastError == OrElse(screenshotResult.error,
                                 <<"Screenshot capture failed">>)
         IN  Continue([st EXCEPT
                 !.lastError = lastError,
                 !.verificationHistory = Append(@, RenderFailedEntry(lastError))])
    ELSE [st EXCEPT !.pc = "verify", !.verifyCalls = @ + 1,
                    !.finalScreenshot = OrElse(@, screenshotResult.base64),
                    !.args = [call |-> "verifyWithAI",
                              screenshotBase64 |-> screenshotResult.base64,
                              filePath |-> st.target.filePath,
                              url |-> st.target.url]]

\* the code after captureVisualScreenshot resolved to screenshotResult
AfterRender(st, screenshotResult) ==
    IF ~screenshotResult.success
       \/ screenshotResult.base64 = Undefined \/ screenshotResult.base64 = <<>>
    THEN LET lastError == OrElse(screenshotResult.error,
                                 <<"Screenshot capture failed">>)
         IN  Continue([st EXCEPT
                 !.lastError = lastError,
                 !.verificationHistory = Append(@, RenderFailedEntry(lastError))])
    ELSE [st EXCEPT !.pc = "verify", !.verifyCalls = @ + 1,
                    !.finalScreenshot = screenshotResult.base64,
                    !.args = [call |-> "verifyWithAI",
                              screenshotBase64 |-> screenshotResult.base64,
                              filePath |-> st.target.filePath,
                              url |-> st.target.url]]

\* AfterVerify that leaves lastError as it was on a failing verdict
AfterVerifyKeepsError(st, verifyResult) ==
    LET pushed == [st EXCEPT !.verificationHistory = Append(@, verifyResult)]
    IN  IF verifyResult.passed
        THEN Passed(pushed)
        ELSE Continue(pushed)

\* AfterVerify returning a pass before the verdict is pushed
AfterVerifyReturnBeforePush(st, verifyResult) ==
    IF verifyResult.passed
    THEN Passed(st)
    ELSE Continue([st EXCEPT
             !.verificationHistory = Append(@, verifyResult),
             !.lastError = OrElse(Join(verifyResult.issues, <<"; ">>),
                                  <<"Verification failed">>)])

\* AfterVerify without the early return on a passing verdict
AfterVerifyNoReturn(st, verifyResult) ==
    Continue([st EXCEPT
        !.verificationHistory = Append(@, verifyResult),
        !.lastError = OrElse(Join(verifyResult.issues, <<"; ">>),
                             <<"Verification failed">>)])

\* the code after verifyWithAI resolved to verifyResult
AfterVerify(st, verifyResult) ==
    LET pushed == [st EXCEPT !.verificationHistory = Append(@, verifyResult)]
    IN  IF verifyResult.passed
        THEN Passed(pushed)
        ELSE Continue([pushed EXCEPT
                 !.lastError = OrElse(Join(verifyResult.issues, <<"; ">>),
                                      <<"Verification failed">>)])

\* a started child workflow runs up to its first await
ChildRun(c) ==
    /\ child[c].pc = "start"
    /\ child' = [child EXCEPT ![c] = LoopHead(child[c])]
    /\ UNCHANGED <<pae, guardian, act, portal, vw, targets, maxRetries, concurrency, fullEnv, spc, cancelled,
                   i, batch, results, launched, sent, output, cancelPoint>>

\* applyGeminiEdit resolves
EditReturns(c) ==
    /\ child[c].pc = "edit"
    /\ \E editResult \in EditOutcomes(child[c].attempt) :
          child' = [child EXCEPT ![c] =
              AfterEdit(Logged(child[c], "edit", editResult.success,
                               editResult.error),
                        editResult)]
    /\ UNCHANGED <<pae, guardian, act, portal, vw, targets, maxRetries, concurrency, fullEnv, spc, cancelled,
                   i, batch, results, launched, sent, output, cancelPoint>>

\* captureVisualScreenshot resolves
RenderReturns(c) ==
    /\ child[c].pc = "render"
    /\ \E screenshotResult \in RenderOutcomes(child[c].attempt) :
          child' = [child EXCEPT ![c] =
              AfterRender(Logged(child[c], "render",
                                 screenshotResult.success
                                 /\ screenshotResult.base64 # Undefined,
                                 screenshotResult.error),
                          screenshotResult)]
    /\ UNCHANGED <<pae, guardian, act, portal, vw, targets, maxRetries, concurrency, fullEnv, spc, cancelled,
                   i, batch, results, launched, sent, output, cancelPoint>>

\* verifyWithAI resolves
VerifyReturns(c) ==
    /\ child[c].pc = "verify"
    /\ \E verifyResult \in VerifyOutcomes(child[c].attempt) :
          child' = [child EXCEPT ![c] =
              AfterVerify(Logged(child[c], "verify", verifyResult.passed,
                                 Undefined),
                          verifyResult)]
    /\ UNCHANGED <<pae, guardian, act, portal, vw, targets, maxRetries, concurrency, fullEnv, spc, cancelled,
                   i, batch, results, launched, sent, output, cancelPoint>>

\* an activity of the child rejects (timeout, worker failure) once the retry
\* policy is used up: nothing catches it, the child workflow fails
ActivityRaises(c) ==
    /\ child[c].pc \in {"edit", "render", "verify"}
    /\ child' = [child EXCEPT ![c] = [pc |-> "failed"]]
    /\ UNCHANGED <<pae, guardian, act, portal, vw, targets, maxRetries, concurrency, fullEnv, spc, cancelled,
                   i, batch, results, launched, sent, output, cancelPoint>>

\* ------------------------------------------------------------------------
\* visualSwarm
\* ------------------------------------------------------------------------
\* batchSize taking the larger of the two
batchSizeMax == IF concurrency > Len(targets) THEN concurrency ELSE Len(targets)

batchSize == Min(concurrency, Len(targets))

\* Aggregate with allPassed decided by the passed count
AggregateAnyPassed(res) ==
    LET passedCount == Len(Filter(res, TRUE))
        failedCount == Len(Filter(res, FALSE))
        allPassed == passedCount > 0
    IN  [passedCount |-> passedCount, failedCount |-> failedCount,
         allPassed |-> allPassed,
         summary |->
            IF allPassed
            THEN <<"All ", ToString(passedCount),
                   " targets passed visual verification">>
            ELSE <<ToString(passedCount), "/", ToString(Len(targets)),
                   " targets passed, ", ToString(failedCount), " failed">>]

\* Aggregate with the two counts of the summary exchanged
AggregateSwapped(res) ==
    LET passedCount == Len(Filter(res, TRUE))
        failedCount == Len(Filter(res, FALSE))
        allPassed == failedCount = 0
    IN  [passedCount |-> passedCount, failedCount |-> failedCount,
         allPassed |-> allPassed,
         summary |->
            IF allPassed
            THEN <<"All ", ToString(passedCount),
                   " targets passed visual verification">>
            ELSE <<ToString(failedCount), "/", ToString(Len(targets)),
                   " targets passed, ", ToString(passedCount), " failed">>]

\* the counts, the verdict and the summary computed from the results
Aggregate(res) ==
    LET passedCount == Len(Filter(res, TRUE))
        failedCount == Len(Filter(res, FALSE))
        allPassed == failedCount = 0
    IN  [passedCount |-> passedCount, failedCount |-> failedCount,
         allPassed |-> allPassed,
         summary |->
            IF allPassed
            THEN <<"All ", ToString(passedCount),
                   " targets passed visual verification">>
            ELSE <<ToString(passedCount), "/", ToString(Len(targets)),
                   " targets passed, ", ToString(failedCount), " failed">>]

\* the value visualSwarm returns after the batches
Output(res) ==
    [returned |-> TRUE, results |-> res,
     allPassed |-> Aggregate(res).allPassed,
     summary |-> Aggregate(res).summary]

\* the value visualSwarm returns for an empty target list
EmptyOutput ==
    [returned |-> TRUE, results |-> <<>>, allPassed |-> FALSE,
     summary |-> <<"No targets provided for visual swarm">>]

\* Notification listing every result instead of the failed ones
NotificationAll(res) ==
    [subject |-> <<"[AI Swarm] Visual Swarm Completed with Failures">>,
     summary |-> Aggregate(res).summary,
     failedTargets |->
        [k \in 1..Len(res) |->
            [url |-> res[k].url, filePath |-> res[k].filePath,
             error |-> res[k].error]],
     priority |-> <<"normal">>]

\* the argument of sendNotification: the body is kept as its summary and the
\* list of failed targets it prints, one line each
Notification(res) ==
    LET failedTargets == Filter(res, FALSE)
    IN  [subject |-> <<"[AI Swarm] Visual Swarm Completed with Failures">>,
         summary |-> Aggregate(res).summary,
         failedTargets |->
            [k \in 1..Len(failedTargets) |->
                [url |-> failedTargets[k].url,
                 filePath |-> failedTargets[k].filePath,
                 error |-> failedTargets[k].error]],
         priority |-> <<"normal">>]

\* one iteration of the batch loop: slice the batch and start its children
Launch(idx, res) ==
    LET slice == Slice(targets, idx, idx + batchSize)
        ids == [k \in 1..Len(slice) |-> idx + k - 1]
    IN  /\ spc' = "await"
        /\ i' = idx
        /\ results' = res
        /\ batch' = ids
        /\ child' = [c \in ChildIds |->
                        IF \E k \in 1..Len(ids) : ids[k] = c
                        THEN ChildStart(slice[CHOOSE k \in 1..Len(ids) : ids[k] = c])
                        ELSE child[c]]
        /\ launched' = launched \o
                        [k \in 1..Len(ids) |->
                            [id |-> ids[k], target |-> slice[k], from |-> idx]]
        /\ UNCHANGED <<sent, output>>

\* the code after the batch loop: aggregate, notify on failure, return
Finish(idx, res) ==
    /\ i' = idx
    /\ results' = res
    /\ batch' = <<>>
    /\ IF Aggregate(res).failedCount > 0
       THEN /\ spc' = "notify"
            /\ sent' = Append(sent, Notification(res))
            /\ output' = output
       ELSE /\ spc' = "returned"
            /\ sent' = sent
            /\ output' = Output(res)
    /\ UNCHANGED <<child, launched>>

\* RunLoop without the cancellation check
RunLoopNoCancel(idx, res) ==
    IF idx < Len(targets)
    THEN Launch(idx, res)
    ELSE Finish(idx, res)

\* the head of the batch loop, with the cancellation check
RunLoop(idx, res) ==
    IF idx < Len(targets) /\ ~cancelled
    THEN Launch(idx, res)
    ELSE Finish(idx, res)

\* SwarmStart without the check for an empty target list
SwarmStartNoEmptyCheck ==
    /\ spc = "start"
    /\ RunLoop(0, <<>>)
    /\ UNCHANGED <<pae, guardian, act, portal, vw, targets, maxRetries, concurrency, fullEnv, cancelled,
                   cancelPoint>>

\* visualSwarm runs from its first statement to its first await
SwarmStart ==
    /\ spc = "start"
    /\ IF Len(targets) = 0
       THEN /\ spc' = "returned"
            /\ output' = EmptyOutput
            /\ UNCHANGED <<i, batch, results, child, launched, sent>>
       ELSE RunLoop(0, <<>>)
    /\ UNCHANGED <<pae, guardian, act, portal, vw, targets, maxRetries, concurrency, fullEnv, cancelled,
                   cancelPoint>>

\* AwaitBatch with the loop index advanced by one
AwaitBatchStepOne ==
    /\ spc = "await"
    /\ \A k \in 1..Len(batch) : child[batch[k]].pc = "returned"
    /\ RunLoop(i + 1,
               results \o [k \in 1..Len(batch) |-> child[batch[k]].result])
    /\ UNCHANGED <<pae, guardian, act, portal, vw, targets, maxRetries, concurrency, fullEnv, cancelled,
                   cancelPoint>>

\* AwaitBatch that goes on as soon as one child of the batch has returned
AwaitBatchAnyReturned ==
    /\ spc = "await"
    /\ \E k \in 1..Len(batch) : child[batch[k]].pc = "returned"
    /\ LET done == SelectSeq(batch, LAMBDA c : child[c].pc = "returned")
       IN  RunLoop(i + batchSize,
                   results \o [k \in 1..Len(done) |-> child[done[k]].result])
    /\ UNCHANGED <<pae, guardian, act, portal, vw, targets, maxRetries, concurrency, fullEnv,
                   cancelled, cancelPoint>>

\* AwaitBatch that looks at the flag before it keeps the results of the batch
AwaitBatchDropsOnCancel ==
    /\ spc = "await"
    /\ \A k \in 1..Len(batch) : child[batch[k]].pc = "returned"
    /\ IF cancelled
       THEN Finish(i, results)
       ELSE RunLoop(i + batchSize,
                    results \o [k \in 1..Len(batch) |-> child[batch[k]].result])
    /\ UNCHANGED <<pae, guardian, act, portal, vw, targets, maxRetries, concurrency, fullEnv,
                   cancelled, cancelPoint>>

\* AwaitBatch that gathers the results of the batch last child first
AwaitBatchReversed ==
    /\ spc = "await"
    /\ \A k \in 1..Len(batch) : child[batch[k]].pc = "returned"
    /\ RunLoop(i + batchSize,
               results \o [k \in 1..Len(batch) |->
                              child[batch[Len(batch) + 1 - k]].result])
    /\ UNCHANGED <<pae, guardian, act, portal, vw, targets, maxRetries, concurrency, fullEnv,
                   cancelled, cancelPoint>>

\* Promise.all resolves: every child of the batch has returned
AwaitBatch ==
    /\ spc = "await"
    /\ \A k \in 1..Len(batch) : child[batch[k]].pc = "returned"
    /\ i + batchSize >= -MaxDescent
    /\ RunLoop(i + batchSize,
               results \o [k \in 1..Len(batch) |-> child[batch[k]].result])
    /\ UNCHANGED <<pae, guardian, act, portal, vw, targets, maxRetries, concurrency, fullEnv, cancelled,
                   cancelPoint>>

\* Promise.all rejects: a child of the batch failed; nothing catches it, the
\* run fails and its open children are closed with it
AwaitRejects ==
    /\ spc = "await"
    /\ \E k \in 1..Len(batch) : child[batch[k]].pc = "failed"
    /\ spc' = "failed"
    /\ child' = [c \in ChildIds |->
                    IF child[c].pc \in {"start", "edit", "render", "verify"}
                    THEN [pc |-> "terminated"]
                    ELSE child[c]]
    /\ UNCHANGED <<pae, guardian, act, portal, vw, targets, maxRetries, concurrency, fullEnv, cancelled, i,
                   batch, results, launched, sent, output, cancelPoint>>

\* sendNotification resolves
NotifyReturns ==
    /\ spc = "notify"
    /\ spc' = "returned"
    /\ output' = Output(results)
    /\ UNCHANGED <<pae, guardian, act, portal, vw, targets, maxRetries, concurrency, fullEnv, cancelled, i,
                   batch, results, child, launched, sent, cancelPoint>>

\* sendNotification rejects: nothing catches it, the run fails
NotifyRaises ==
    /\ spc = "notify"
    /\ spc' = "failed"
    /\ UNCHANGED <<pae, guardian, act, portal, vw, targets, maxRetries, concurrency, fullEnv, cancelled, i,
                   batch, results, child, launched, sent, output, cancelPoint>>

\* the cancelSwarm signal reaches the run and its handler sets the flag;
\* cancelPoint keeps where the run was at the first signal (history only)
CancelSignal ==
    /\ spc \in {"start", "await", "notify"}
    /\ cancelled' = TRUE
    /\ cancelPoint' =
          IF cancelPoint.seen THEN cancelPoint
          ELSE [seen |-> TRUE, at |-> spc, launched |-> Len(launched),
                batchDone |-> \A k \in 1..Len(batch) :
                                  child[batch[k]].pc = "returned"]
    /\ UNCHANGED <<pae, guardian, act, portal, vw, targets, maxRetries, concurrency, fullEnv, spc, i, batch,
                   results, child, launched, sent, output>>

Next ==
    \/ SwarmStart
    \/ AwaitBatch
    \/ AwaitRejects
    \/ NotifyReturns
    \/ NotifyRaises
    \/ CancelSignal
    \/ \E c \in ChildIds : ChildRun(c)
    \/ \E c \in ChildIds : EditReturns(c)
    \/ \E c \in ChildIds : RenderReturns(c)
    \/ \E c \in ChildIds : VerifyReturns(c)
    \/ \E c \in ChildIds : ActivityRaises(c)

Spec == Init /\ [][Next]_vars

\* a request of at most one target: every activity may fail and may omit
\* the optional fields of its answer
InitChild ==
    /\ \E n \in 0..1 : targets = [k \in 1..n |-> TargetPage(k)]
    /\ maxRetries \in (-1)..MaxChildRetries
    /\ concurrency \in 1..MaxConcurrency
    /\ fullEnv = TRUE
    /\ InitCommon

SpecChild == InitChild /\ [][Next]_vars

\* a swarm started by a client that sets concurrency itself: a non-empty
\* request and any integer, which visualSwarm takes as it comes
InitConcurrency ==
    /\ \E n \in 1..MaxTargets : targets = [k \in 1..n |-> TargetPage(k)]
    /\ maxRetries \in 0..MaxRetries
    /\ concurrency \in (-MaxNegConcurrency)..MaxConcurrency
    /\ fullEnv = FALSE
    /\ InitCommon

SpecConcurrency == InitConcurrency /\ [][Next]_vars

\* no workflow runs: only calls of the verifier are made
InitVerifier ==
    /\ targets = <<>>
    /\ maxRetries = 1
    /\ concurrency = 1
    /\ fullEnv = TRUE
    /\ InitCommon

SpecVerifier == InitVerifier /\ [][NextVerifier]_vars

\* ------------------------------------------------------------------------
\* The dispatch route: POST starts a run, DELETE cancels it
\* ------------------------------------------------------------------------
\* the targets a request body may list: whole, without url, without filePath
BodyTargets(k) ==
    {TargetPage(k),
     [TargetPage(k) EXCEPT !.url = <<>>],
     [TargetPage(k) EXCEPT !.filePath = <<>>]}

\* the request bodies: targets and maxRetries may be left out
DispatchBodies ==
    {body \in
        [stylingInstruction : {<<>>, <<"make the header blue">>},
         targetsGiven : BOOLEAN,
         targets : UNION {{t \in [1..n -> UNION {BodyTargets(k) : k \in 1..n}] :
                              \A k \in 1..n : t[k] \in BodyTargets(k)} :
                          n \in 0..MaxDispatchTargets},
         projectId : {<<>>, <<"portal">>},
         maxRetries : {[given |-> FALSE]}
                      \cup {[given |-> TRUE, value |-> n] :
                              n \in (-1)..MaxDispatchRetries}] :
        body.targetsGiven \/ body.targets = <<>>}

\* PostStatus that looks at the first target only
PostStatusFirstTargetOnly(session, body, started) ==
    IF ~session THEN "401"
    ELSE IF body.stylingInstruction = <<>> THEN "400"
    ELSE IF ~body.targetsGiven \/ Len(body.targets) = 0 THEN "400"
    ELSE IF body.projectId = <<>> THEN "400"
    ELSE IF body.targets[1].url = <<>> \/ body.targets[1].filePath = <<>>
         THEN "400"
    ELSE IF ~started THEN "500"
    ELSE "200"

\* the status POST answers with; started says whether client.workflow.start
\* resolved
PostStatus(session, body, started) ==
    IF ~session THEN "401"
    ELSE IF body.stylingInstruction = <<>> THEN "400"
    ELSE IF ~body.targetsGiven \/ Len(body.targets) = 0 THEN "400"
    ELSE IF body.projectId = <<>> THEN "400"
    ELSE IF \E k \in 1..Len(body.targets) :
                body.targets[k].url = <<>> \/ body.targets[k].filePath = <<>>
         THEN "400"
    ELSE IF ~started THEN "500"
    ELSE "200"

\* POST /api/swarm/dispatch
Post ==
    /\ portal.post = "none"
    /\ spc = "unstarted"
    /\ \E session \in BOOLEAN, body \in DispatchBodies, started \in BOOLEAN :
          LET status == PostStatus(session, body, started)
          IN  /\ portal' = [post |-> status, del |-> "none",
                             session |-> session, body |-> body]
              /\ IF status = "200"
                 THEN /\ spc' = "start"
                      /\ targets' = body.targets
                      /\ maxRetries' = IF body.maxRetries.given
                                       THEN body.maxRetries.value
                                       ELSE DefaultMaxRetries
                      /\ concurrency' = DEFAULT_CONCURRENCY
                 ELSE UNCHANGED <<spc, targets, maxRetries, concurrency>>
    /\ UNCHANGED <<pae, guardian, act, vw, fullEnv, cancelled, i, batch, results, child, launched,
                   sent, output, cancelPoint>>

\* DELETE /api/swarm/dispatch up to the await of handle.signal: the signal
\* reaches a run that is open and is refused by one that is closed
Delete ==
    /\ portal.post = "200"
    /\ portal.del = "none"
    /\ \E session \in BOOLEAN, workflowId \in BOOLEAN :
          IF ~session THEN
              /\ portal' = [portal EXCEPT !.del = "401"]
              /\ UNCHANGED <<cancelled, cancelPoint>>
          ELSE IF ~workflowId THEN
              /\ portal' = [portal EXCEPT !.del = "400"]
              /\ UNCHANGED <<cancelled, cancelPoint>>
          ELSE IF spc \in {"start", "await", "notify"} THEN
              /\ portal' = [portal EXCEPT !.del = "signalled"]
              /\ cancelled' = TRUE
              /\ cancelPoint' =
                    IF cancelPoint.seen THEN cancelPoint
                    ELSE [seen |-> TRUE, at |-> spc,
                          launched |-> Len(launched),
                          batchDone |-> \A k \in 1..Len(batch) :
                                            child[batch[k]].pc = "returned"]
          ELSE
              /\ portal' = [portal EXCEPT !.del = "500"]
              /\ UNCHANGED <<cancelled, cancelPoint>>
    /\ UNCHANGED <<pae, guardian, act, vw, targets, maxRetries, concurrency, fullEnv, spc, i,
                   batch, results, child, launched, sent, output>>

\* DELETE after the signal: handle.terminate closes an open run, and its
\* open children with it, and is refused by a closed one
DeleteTerminate ==
    /\ portal.del = "signalled"
    /\ IF spc \in {"start", "await", "notify"}
       THEN /\ portal' = [portal EXCEPT !.del = "200"]
            /\ spc' = "terminated"
            /\ child' = [c \in ChildIds |->
                            IF child[c].pc \in {"start", "edit", "render",
                                                "verify"}
                            THEN [pc |-> "terminated"]
                            ELSE child[c]]
       ELSE /\ portal' = [portal EXCEPT !.del = "500"]
            /\ UNCHANGED <<spc, child>>
    /\ UNCHANGED <<pae, guardian, act, vw, targets, maxRetries, concurrency, fullEnv, cancelled, i,
                   batch, results, launched, sent, output, cancelPoint>>

NextPortal == Next \/ Post \/ Delete \/ DeleteTerminate

\* no run exists until the route has started one
InitPortal ==
    /\ targets = <<>>
    /\ maxRetries = DefaultMaxRetries
    /\ concurrency = DEFAULT_CONCURRENCY
    /\ fullEnv = FALSE
    /\ spc = "unstarted"
    /\ cancelled = FALSE
    /\ i = 0
    /\ batch = <<>>
    /\ results = <<>>
    /\ child = [c \in ChildIds |-> Idle]
    /\ launched = <<>>
    /\ sent = <<>>
    /\ output = NoOutput
    /\ cancelPoint = NoCancel
    /\ vw = [pc |-> "start"]
    /\ portal = NoPortal
    /\ act = NoCall
    /\ guardian = NoGuardian
    /\ pae = NoPlan

SpecPortal == InitPortal /\ [][NextPortal]_vars

NextActivities == PtRun \/ GeRun \/ CsRun

\* no workflow runs: the activities are called on their own
InitActivities ==
    /\ targets = <<>>
    /\ maxRetries = 1
    /\ concurrency = 1
    /\ fullEnv = TRUE
    /\ InitCommon

SpecActivities == InitActivities /\ [][NextActivities]_vars

\* ------------------------------------------------------------------------
\* HealthGuardianService
\* ------------------------------------------------------------------------
\* the numbers and the switch of DEFAULT_CONFIG that the evaluation reads
DEFAULT_CONFIG ==
    [memoryWarningPercent |-> 80, memoryCriticalPercent |-> 90,
     maxClaudeProcesses |-> 8, maxGeminiProcesses |-> 8,
     maxTotalProcesses |-> 2000,
     loadWarningMultiplier |-> 10, loadCriticalMultiplier |-> 25,
     criticalCountBeforeShutdown |-> 2, enableAutoShutdown |-> TRUE]

\* the configurations a HealthGuardianService is constructed with
GuardianConfigs ==
    {[DEFAULT_CONFIG EXCEPT !.enableAutoShutdown = e,
                            !.criticalCountBeforeShutdown = n] :
        e \in BOOLEAN, n \in 1..MaxCriticalCount}

\* a reading of a machine at rest
Calm ==
    [memoryUsedPercent |-> 50, loadAverage1m |-> 1, cpuCount |-> 1,
     claudeProcessCount |-> 0, geminiProcessCount |-> 0,
     totalProcessCount |-> 100]

\* what the three gather steps can read from /proc: each threshold of the
\* evaluation is crossed by one reading at least
Readings ==
    {Calm,
     [Calm EXCEPT !.memoryUsedPercent = 85],
     [Calm EXCEPT !.memoryUsedPercent = 95],
     [Calm EXCEPT !.loadAverage1m = 12],
     [Calm EXCEPT !.loadAverage1m = 30, !.memoryUsedPercent = 85],
     [Calm EXCEPT !.claudeProcessCount = 9],
     [Calm EXCEPT !.geminiProcessCount = 9],
     [Calm EXCEPT !.memoryUsedPercent = 95, !.claudeProcessCount = 9],
     [Calm EXCEPT !.totalProcessCount = 2001],
     [Calm EXCEPT !.totalProcessCount = 2001, !.geminiProcessCount = 9]}

\* evaluateHealth without the reset of the counter on a calm reading
evaluateHealthNoReset(config, status, consecutiveCriticalCount) ==
    LET afterMemory ==
            IF status.memoryUsedPercent >= config.memoryCriticalPercent
            THEN "critical"
            ELSE IF status.memoryUsedPercent >= config.memoryWarningPercent
            THEN "warning"
            ELSE "healthy"
        loadWarningThreshold == config.loadWarningMultiplier * status.cpuCount
        loadCriticalThreshold == config.loadCriticalMultiplier * status.cpuCount
        afterLoad ==
            IF status.loadAverage1m >= loadCriticalThreshold THEN "critical"
            ELSE IF status.loadAverage1m >= loadWarningThreshold
            THEN (IF afterMemory = "healthy" THEN "warning" ELSE afterMemory)
            ELSE afterMemory
        afterClaude ==
            IF status.claudeProcessCount > config.maxClaudeProcesses
            THEN (IF afterLoad # "critical" THEN "warning" ELSE afterLoad)
            ELSE afterLoad
        afterGemini ==
            IF status.geminiProcessCount > config.maxGeminiProcesses
            THEN (IF afterClaude # "critical" THEN "warning" ELSE afterClaude)
            ELSE afterClaude
        level ==
            IF status.totalProcessCount > config.maxTotalProcesses
            THEN "emergency"
            ELSE afterGemini
    IN  [level |-> level,
         consecutiveCriticalCount |->
            IF level = "critical" \/ level = "emergency"
            THEN consecutiveCriticalCount + 1
            ELSE consecutiveCriticalCount]

\* evaluateHealth: the level of the reading and the counter after it
evaluateHealth(config, status, consecutiveCriticalCount) ==
    LET afterMemory ==
            IF status.memoryUsedPercent >= config.memoryCriticalPercent
            THEN "critical"
            ELSE IF status.memoryUsedPercent >= config.memoryWarningPercent
            THEN "warning"
            ELSE "healthy"
        loadWarningThreshold == config.loadWarningMultiplier * status.cpuCount
        loadCriticalThreshold == config.loadCriticalMultiplier * status.cpuCount
        afterLoad ==
            IF status.loadAverage1m >= loadCriticalThreshold THEN "critical"
            ELSE IF status.loadAverage1m >= loadWarningThreshold
            THEN (IF afterMemory = "healthy" THEN "warning" ELSE afterMemory)
            ELSE afterMemory
        afterClaude ==
            IF status.claudeProcessCount > config.maxClaudeProcesses
            THEN (IF afterLoad # "critical" THEN "warning" ELSE afterLoad)
            ELSE afterLoad
        afterGemini ==
            IF status.geminiProcessCount > config.maxGeminiProcesses
            THEN (IF afterClaude # "critical" THEN "warning" ELSE afterClaude)
            ELSE afterClaude
        level ==
            IF status.totalProcessCount > config.maxTotalProcesses
            THEN "emergency"
            ELSE afterGemini
    IN  [level |-> level,
         consecutiveCriticalCount |->
            IF level = "critical" \/ level = "emergency"
            THEN consecutiveCriticalCount + 1
            ELSE 0]

\* the containers of the deployment, in the order the Docker API lists them
AllContainers ==
    << <<"/ai-swarm-", "portal">>,
       <<"/ai-swarm-", "worker", "-1">>,
       <<"/ai-swarm-", "worker", "-2">> >>

\* n.includes('worker')
IsWorker(name) == \E k \in 1..Len(name) : name[k] = "worker"

\* the answer of GET /containers/json filtered to the worker containers
workerContainers(running) ==
    SelectSeq(AllContainers, LAMBDA name : name \in running /\ IsWorker(name))

\* shutdownWorkers up to its first await; last.action keeps what it did
shutdownWorkers(g, reason) ==
    IF g.isShutdownInProgress
    THEN [g EXCEPT !.last.action = "shutdown already in progress"]
    ELSE IF ~g.config.enableAutoShutdown
    THEN [g EXCEPT !.last.action = "shutdown required but disabled"]
    ELSE [g EXCEPT !.isShutdownInProgress = TRUE,
                   !.last.action = "shutdown",
                   !.dockerCalled = TRUE,
                   !.ops = Append(@, [kind |-> "stop", pc |-> "listing",
                                      remaining |-> <<>>, reason |-> reason,
                                      check |-> g.last])]

\* restartWorkers up to its first await
restartWorkers(g) ==
    IF ~g.config.enableAutoShutdown
    THEN [g EXCEPT !.last.action = "restart skipped"]
    ELSE [g EXCEPT !.last.action = "restart",
                   !.dockerCalled = TRUE,
                   !.ops = Append(@, [kind |-> "restart", pc |-> "listing",
                                      remaining |-> <<>>,
                                      reason |-> "orphaned processes",
                                      check |-> g.last])]

\* takeAction (killOrphanedProcesses included) up to its first await
takeAction(g, status, level) ==
    IF level = "emergency"
    THEN shutdownWorkers(g, "EMERGENCY")
    ELSE IF level = "critical"
            /\ g.consecutiveCriticalCount
                  >= g.config.criticalCountBeforeShutdown
    THEN shutdownWorkers(g, "CRITICAL (consecutive)")
    ELSE IF status.claudeProcessCount > g.config.maxClaudeProcesses
            \/ status.geminiProcessCount > g.config.maxGeminiProcesses
    THEN restartWorkers(g)
    ELSE g

\* runHealthCheck from the evaluation on: the gather steps before it touch
\* nothing of the service. History only: checks, streak (the consecutive
\* critical or emergency checks so far), last, stops and dockerCalled (a
\* request was sent to the Docker API).
runHealthCheck(g, status, trigger) ==
    LET evaluated == evaluateHealth(g.config, status,
                                    g.consecutiveCriticalCount)
        level == evaluated.level
        streak == IF level = "critical" \/ level = "emergency"
                  THEN g.streak + 1 ELSE 0
    IN  takeAction(
            [g EXCEPT !.consecutiveCriticalCount =
                          evaluated.consecutiveCriticalCount,
                      !.checks = @ + 1,
                      !.streak = streak,
                      !.last = [level |-> level, trigger |-> trigger,
                                streak |-> streak, action |-> "none"]],
            status, level)

\* the op of index k is taken out of the list of pending Docker operations
WithoutOp(ops, k) == [j \in 1..(Len(ops) - 1) |-> IF j < k THEN ops[j] ELSE ops[j + 1]]

\* the end of an operation: a shutdown that went through resets the counter,
\* and a shutdown always clears the flag on its way out
OpEnds(g, k, wentThrough) ==
    [g EXCEPT !.ops = WithoutOp(@, k),
              !.consecutiveCriticalCount =
                  IF g.ops[k].kind = "stop" /\ wentThrough THEN 0 ELSE @,
              !.isShutdownInProgress =
                  IF g.ops[k].kind = "stop" THEN FALSE ELSE @]

\* the interval timer set by start() fires (start() itself runs the first)
TimerCheck ==
    /\ guardian.pc = "running"
    /\ guardian.checks < MaxChecks
    /\ \E status \in Readings :
          guardian' = runHealthCheck(guardian, status, "timer")
    /\ UNCHANGED <<pae, act, portal, vw, targets, maxRetries, concurrency, fullEnv,
                   spc, cancelled, i, batch, results, child, launched, sent,
                   output, cancelPoint>>

\* GET /api/health, or POST with action 'check', runs a check of its own
EndpointCheck ==
    /\ guardian.pc = "running"
    /\ guardian.checks < MaxChecks
    /\ \E status \in Readings :
          guardian' = runHealthCheck(guardian, status, "endpoint")
    /\ UNCHANGED <<pae, act, portal, vw, targets, maxRetries, concurrency, fullEnv,
                   spc, cancelled, i, batch, results, child, launched, sent,
                   output, cancelPoint>>

\* listContainers answers: the loop over the worker containers starts
DockerLists ==
    /\ guardian.pc = "running"
    /\ \E k \in 1..Len(guardian.ops) :
          /\ guardian.ops[k].pc = "listing"
          /\ LET workers == workerContainers(guardian.running)
             IN  guardian' =
                    IF workers = <<>>
                    THEN OpEnds(guardian, k, TRUE)
                    ELSE [guardian EXCEPT
                             !.ops[k].pc = "calling",
                             !.ops[k].remaining = workers]
    /\ UNCHANGED <<pae, act, portal, vw, targets, maxRetries, concurrency, fullEnv,
                   spc, cancelled, i, batch, results, child, launched, sent,
                   output, cancelPoint>>

\* the POST to /containers/{id}/stop or /restart resolves: the container is
\* stopped or restarted and the loop goes on to the next one
DockerAnswers ==
    /\ guardian.pc = "running"
    /\ \E k \in 1..Len(guardian.ops) :
          /\ guardian.ops[k].pc = "calling"
          /\ LET op == guardian.ops[k]
                 container == Head(op.remaining)
                 acted ==
                    [guardian EXCEPT
                        !.running = IF op.kind = "stop"
                                    THEN @ \ {container}
                                    ELSE @ \cup {container},
                        !.stops = IF op.kind = "stop"
                                  THEN Append(@, [container |-> container,
                                                  reason |-> op.reason,
                                                  check |-> op.check])
                                  ELSE @]
             IN  guardian' =
                    IF Tail(op.remaining) = <<>>
                    THEN OpEnds(acted, k, TRUE)
                    ELSE [acted EXCEPT
                             !.ops[k].remaining = Tail(op.remaining)]
    /\ UNCHANGED <<pae, act, portal, vw, targets, maxRetries, concurrency, fullEnv,
                   spc, cancelled, i, batch, results, child, launched, sent,
                   output, cancelPoint>>

\* a call of the Docker API fails (no proxy, a status that is not ok): the
\* catch of the operation notes it and the operation is over
DockerFails ==
    /\ guardian.pc = "running"
    /\ \E k \in 1..Len(guardian.ops) :
          guardian' = OpEnds(guardian, k, FALSE)
    /\ UNCHANGED <<pae, act, portal, vw, targets, maxRetries, concurrency, fullEnv,
                   spc, cancelled, i, batch, results, child, launched, sent,
                   output, cancelPoint>>

NextGuardian ==
    \/ TimerCheck
    \/ EndpointCheck
    \/ DockerLists
    \/ DockerAnswers
    \/ DockerFails

\* the service as constructed, before start() runs its first check
GuardianStart(config) ==
    [pc |-> "running", config |-> config, consecutiveCriticalCount |-> 0,
     isShutdownInProgress |-> FALSE, ops |-> <<>>,
     running |-> {AllContainers[k] : k \in 1..Len(AllContainers)},
     stops |-> <<>>, dockerCalled |-> FALSE, checks |-> 0, streak |-> 0,
     last |-> [level |-> "none", trigger |-> "none", streak |-> 0,
               action |-> "none"]]

\* no workflow runs: only the guardian and the Docker API act
InitGuardian ==
    /\ targets = <<>>
    /\ maxRetries = 1
    /\ concurrency = 1
    /\ fullEnv = FALSE
    /\ spc = "start"
    /\ cancelled = FALSE
    /\ i = 0
    /\ batch = <<>>
    /\ results = <<>>
    /\ child = [c \in ChildIds |-> Idle]
    /\ launched = <<>>
    /\ sent = <<>>
    /\ output = NoOutput
    /\ cancelPoint = NoCancel
    /\ vw = [pc |-> "start"]
    /\ portal = NoPortal
    /\ act = NoCall
    /\ \E config \in GuardianConfigs : guardian = GuardianStart(config)
    /\ pae = NoPlan

SpecGuardian == InitGuardian /\ [][NextGuardian]_vars

\* ------------------------------------------------------------------------
\* planAndExecute
\* ------------------------------------------------------------------------
\* the sub-task of index k of a breakdown
SubTask(k) == [id |-> <<"task-", ToString(k)>>]

\* the workflowId of the child of a sub-task
DevWorkflowId(task) == <<"dev-">> \o task.id

\* one executeChild('developFeature', ...) call; approved and cancelled keep
\* whether an approval and a cancel signal had been handled when the call
\* was made (history only)
ChildLaunch(st, task) ==
    [workflowId |-> DevWorkflowId(task), task |-> task,
     approved |-> st.everApproved, cancelled |-> st.cancelled]

\* the locals of planAndExecute at its first statement; maxWorkers is
\* input.maxWorkers, 0 when it is left out; everApproved keeps whether an
\* approving signal was ever handled (history only)
PlanStart(maxWorkers) ==
    [pc |-> "start", phase |-> "planning", approvalStatus |-> "pending",
     cancelled |-> FALSE, maxWorkers |-> maxWorkers, subTasks |-> <<>>,
     launches |-> <<>>, status |-> "running", everApproved |-> FALSE]

\* a return statement of planAndExecute
PlanReturns(st, status) == [st EXCEPT !.pc = "returned", !.status = status]

\* the fan-out: the worker pool loop fills the pool once and breaks, then
\* the map starts a child for every sub-task
FanOut(st) ==
    LET maxWorkers == IF st.maxWorkers # 0 THEN st.maxWorkers ELSE 3
        pool == IF maxWorkers <= 0 THEN 0
                ELSE Min(maxWorkers, Len(st.subTasks))
    IN  [st EXCEPT !.pc = "children",
                   !.launches =
                       [k \in 1..pool |-> ChildLaunch(st, st.subTasks[k])]
                       \o [k \in 1..Len(st.subTasks) |->
                              ChildLaunch(st, st.subTasks[k])]]

\* planAndExecute runs from its first statement to the call of planTask
PlanRun ==
    /\ pae.pc = "start"
    /\ pae' = [pae EXCEPT !.pc = "planTask"]
    /\ UNCHANGED <<guardian, act, portal, vw, targets, maxRetries,
                   concurrency, fullEnv, spc, cancelled, i, batch, results,
                   child, launched, sent, output, cancelPoint>>

\* planTask resolves: the first cancellation checkpoint, then the wait for
\* the approval
PlanTaskReturns ==
    /\ pae.pc = "planTask"
    /\ pae' = IF pae.cancelled
              THEN PlanReturns(pae, "cancelled")
              ELSE [pae EXCEPT !.pc = "condition",
                               !.phase = "awaiting_approval"]
    /\ UNCHANGED <<guardian, act, portal, vw, targets, maxRetries,
                   concurrency, fullEnv, spc, cancelled, i, batch, results,
                   child, launched, sent, output, cancelPoint>>

\* the approval signal is handled
ApprovalSignal ==
    /\ pae.pc \in {"planTask", "condition", "breakdownPlan", "children"}
    /\ \E approved \in BOOLEAN :
          pae' = [pae EXCEPT !.approvalStatus =
                                 IF approved THEN "approved" ELSE "rejected",
                             !.everApproved = @ \/ approved]
    /\ UNCHANGED <<guardian, act, portal, vw, targets, maxRetries,
                   concurrency, fullEnv, spc, cancelled, i, batch, results,
                   child, launched, sent, output, cancelPoint>>

\* the cancel signal is handled
PlanCancelSignal ==
    /\ pae.pc \in {"planTask", "condition", "breakdownPlan", "children"}
    /\ pae' = [pae EXCEPT !.cancelled = TRUE, !.phase = "cancelled"]
    /\ UNCHANGED <<guardian, act, portal, vw, targets, maxRetries,
                   concurrency, fullEnv, spc, cancelled, i, batch, results,
                   child, launched, sent, output, cancelPoint>>

\* the condition holds: the second checkpoint, the rejection, or the call of
\* breakdownPlan
ConditionResolves ==
    /\ pae.pc = "condition"
    /\ pae.approvalStatus # "pending" \/ pae.cancelled
    /\ pae' = IF pae.cancelled
              THEN PlanReturns(pae, "cancelled")
              ELSE IF pae.approvalStatus = "rejected"
              THEN PlanReturns([pae EXCEPT !.phase = "failed"], "failed")
              ELSE [pae EXCEPT !.pc = "breakdownPlan", !.phase = "executing"]
    /\ UNCHANGED <<guardian, act, portal, vw, targets, maxRetries,
                   concurrency, fullEnv, spc, cancelled, i, batch, results,
                   child, launched, sent, output, cancelPoint>>

\* breakdownPlan resolves to the sub-tasks: the third checkpoint, then the
\* fan-out up to the await of Promise.all
BreakdownReturns ==
    /\ pae.pc = "breakdownPlan"
    /\ \E n \in 0..MaxSubTasks :
          LET st == [pae EXCEPT !.subTasks = [k \in 1..n |-> SubTask(k)]]
          IN  pae' = IF st.cancelled
                     THEN PlanReturns(st, "cancelled")
                     ELSE FanOut(st)
    /\ UNCHANGED <<guardian, act, portal, vw, targets, maxRetries,
                   concurrency, fullEnv, spc, cancelled, i, batch, results,
                   child, launched, sent, output, cancelPoint>>

\* planTask or breakdownPlan rejects, or a child does and Promise.all with
\* it: the catch returns status failed
PlanCatches ==
    /\ pae.pc \in {"planTask", "breakdownPlan", "children"}
    /\ pae' = PlanReturns([pae EXCEPT !.phase = "failed"], "failed")
    /\ UNCHANGED <<guardian, act, portal, vw, targets, maxRetries,
                   concurrency, fullEnv, spc, cancelled, i, batch, results,
                   child, launched, sent, output, cancelPoint>>

\* Promise.all resolves: the run returns completed, with or without failed
\* sub-tasks
ChildrenReturn ==
    /\ pae.pc = "children"
    /\ \E failedTasks \in BOOLEAN :
          pae' = PlanReturns([pae EXCEPT !.phase = IF failedTasks
                                                  THEN "failed"
                                                  ELSE "completed"],
                             "completed")
    /\ UNCHANGED <<guardian, act, portal, vw, targets, maxRetries,
                   concurrency, fullEnv, spc, cancelled, i, batch, results,
                   child, launched, sent, output, cancelPoint>>

NextPlan ==
    \/ PlanRun
    \/ PlanTaskReturns
    \/ ApprovalSignal
    \/ PlanCancelSignal
    \/ ConditionResolves
    \/ BreakdownReturns
    \/ PlanCatches
    \/ ChildrenReturn

\* no visual swarm runs: a planAndExecute workflow is started
InitPlan ==
    /\ targets = <<>>
    /\ maxRetries = 1
    /\ concurrency = 1
    /\ fullEnv = FALSE
    /\ spc = "start"
    /\ cancelled = FALSE
    /\ i = 0
    /\ batch = <<>>
    /\ results = <<>>
    /\ child = [c \in ChildIds |-> Idle]
    /\ launched = <<>>
    /\ sent = <<>>
    /\ output = NoOutput
    /\ cancelPoint = NoCancel
    /\ vw = [pc |-> "start"]
    /\ portal = NoPortal
    /\ act = NoCall
    /\ guardian = NoGuardian
    /\ \E maxWorkers \in 0..MaxWorkers : pae = PlanStart(maxWorkers)

SpecPlan == InitPlan /\ [][NextPlan]_vars

\* ------------------------------------------------------------------------
\* Properties
\* ------------------------------------------------------------------------
Running == {"start", "edit", "render", "verify"}

\* the children launched and not yet returned
InFlight == {c \in ChildIds : child[c].pc \in Running}

\* the positions of the log of child c at which the verifier passed
PassingVerifies(c) ==
    {j \in 1..Len(child[c].log) :
        child[c].log[j].call = "verify" /\ child[c].log[j].ok}

\* in the run of child c every edit and render succeeded and every verdict
\* was a failing one
AlwaysFailingVerifier(c) ==
    \A j \in 1..Len(child[c].log) :
        child[c].log[j].ok = (child[c].log[j].call # "verify")

\* C1: a visualEditChild with maxRetries >= 1 whose edits and renders all
\* succeed and whose verifier fails every time returns success = false,
\* attempts = maxRetries and a history of exactly maxRetries entries.
C1_AlwaysFailingExhaustsBudget ==
    \A c \in ChildIds :
        (/\ child[c].pc = "returned"
         /\ maxRetries >= 1
         /\ AlwaysFailingVerifier(c))
        => /\ child[c].result.success = FALSE
           /\ child[c].result.attempts = maxRetries
           /\ Len(child[c].result.verificationHistory) = maxRetries
           /\ child[c].verifyCalls = maxRetries

C1_Witness ==
    \E c \in ChildIds :
        /\ child[c].pc = "returned"
        /\ maxRetries >= 2
        /\ AlwaysFailingVerifier(c)
        /\ Len(child[c].log) = 3 * maxRetries

\* what C2 says of child c once it has returned
FirstPassEnds(c) ==
    (child[c].pc = "returned" /\ PassingVerifies(c) # {})
    => LET j == CHOOSE x \in PassingVerifies(c) :
                    \A y \in PassingVerifies(c) : x <= y
           k == child[c].log[j].attempt
       IN  /\ k <= maxRetries
           /\ child[c].result.success = TRUE
           /\ child[c].result.attempts = k
           /\ Len(child[c].result.verificationHistory) = k
           /\ j = Len(child[c].log)
           /\ child[c].verifyCalls =
                 Cardinality({x \in 1..Len(child[c].log) :
                                 child[c].log[x].call = "verify"})

\* C2: when the verifier first passes in attempt k <= maxRetries, whatever
\* stage the attempts before it failed at, the child returns success = true,
\* attempts = k and a history of exactly k entries, that verdict is the last
\* activity result it ever consumes, and a returned child makes no more calls.
C2_FirstPassReturnsAtOnce ==
    [][\A c \in ChildIds :
          /\ FirstPassEnds(c)'
          /\ child[c].pc = "returned" => child'[c] = child[c]]_vars

C2_Witness ==
    \E c \in ChildIds :
        /\ child[c].pc = "returned"
        /\ child[c].result.success
        /\ child[c].result.attempts = 3
        /\ child[c].log[1].call = "edit" /\ ~child[c].log[1].ok
        /\ child[c].log[3].call = "render" /\ ~child[c].log[3].ok

\* C3: at every moment of a swarm run at most min(concurrency, len(targets))
\* children are launched and not yet returned.
C3_InFlightBounded ==
    Cardinality(InFlight) <=
        (IF concurrency <= Len(targets) THEN concurrency ELSE Len(targets))

C3_Witness ==
    /\ concurrency = 2
    /\ Len(targets) = 3
    /\ Cardinality(InFlight) = 2
    /\ \E c \in InFlight : child[c].pc = "verify"

\* C4: a cancelSwarm signal handled after a batch completed and before the
\* next one is launched stops the launches for good, and the run returns
\* exactly one result for each target launched up to then, in target order,
\* and nothing for the later targets.
C4_CancelBetweenBatches ==
    (cancelPoint.seen /\ cancelPoint.at = "await" /\ cancelPoint.batchDone)
    => /\ Len(launched) = cancelPoint.launched
       /\ \A c \in ChildIds : c >= cancelPoint.launched => child[c] = Idle
       /\ output.returned =>
            /\ Len(output.results) = cancelPoint.launched
            /\ \A j \in 1..Len(output.results) :
                  /\ output.results[j].url = targets[j].url
                  /\ output.results[j].filePath = targets[j].filePath

C4_Witness ==
    /\ cancelPoint.seen /\ cancelPoint.at = "await" /\ cancelPoint.batchDone
    /\ output.returned
    /\ Len(output.results) = 2
    /\ Len(targets) = 3

\* C5: for a non-empty request, cancelled or not, the returned allPassed is
\* true exactly when every returned result has success = true.
C5_AllPassedIffEverySuccess ==
    (output.returned /\ Len(targets) > 0)
    => (output.allPassed <=>
            \A j \in 1..Len(output.results) : output.results[j].success)

C5_Witness ==
    /\ output.returned
    /\ Len(output.results) = 3
    /\ output.results[1].success
    /\ ~output.results[2].success
    /\ ~output.allPassed

\* C6: given an empty target list visualSwarm returns normally with empty
\* results and allPassed = false, launching no child and sending no
\* notification.
C6_EmptyRequestReturnsEmpty ==
    Len(targets) = 0
    => /\ spc \in {"start", "returned"}
       /\ launched = <<>>
       /\ sent = <<>>
       /\ \A c \in ChildIds : child[c] = Idle
       /\ spc = "returned" =>
            /\ output.returned
            /\ output.results = <<>>
            /\ output.allPassed = FALSE

C6_Witness ==
    /\ Len(targets) = 0
    /\ spc = "returned"
    /\ output.returned

\* the batch start the loop gives to the target of index k (1-based)
BatchStartOf(k) ==
    LET size == IF concurrency <= Len(targets) THEN concurrency
                ELSE Len(targets)
    IN  ((k - 1) \div size) * size

\* C7: with concurrency >= 1 the batches are the consecutive slices of size
\* min(concurrency, len(targets)) of the target list: the k-th launch is that
\* of target k, under child id k - 1, in the batch its index falls in; and a
\* run that is never cancelled launches every target once and returns
\* len(targets) results.
C7_BatchesPartitionTargets ==
    /\ \A k \in 1..Len(launched) :
          /\ k <= Len(targets)
          /\ launched[k].id = k - 1
          /\ launched[k].target = targets[k]
          /\ launched[k].from = BatchStartOf(k)
    /\ (output.returned /\ ~cancelled /\ Len(targets) > 0)
       => /\ Len(launched) = Len(targets)
          /\ Len(output.results) = Len(targets)

C7_Witness ==
    /\ output.returned
    /\ ~cancelled
    /\ Len(targets) = 3
    /\ concurrency = 2
    /\ launched[3].from = 2

\* the number of results of the output whose success is wanted
CountOf(wanted) ==
    Cardinality({j \in 1..Len(output.results) :
                    output.results[j].success = wanted})

\* C8: the summary of a non-empty request is the "All N targets passed" form
\* exactly when no returned result failed, and otherwise "P/T targets passed,
\* F failed" with P the number of passed and F the number of failed results
\* (T the number of targets in a run that was not cancelled).
C8_SummaryForm ==
    (output.returned /\ Len(targets) > 0)
    => IF CountOf(FALSE) = 0
       THEN /\ Len(output.summary) = 3
            /\ output.summary[1] = "All "
            /\ output.summary[2] = ToString(CountOf(TRUE))
       ELSE /\ Len(output.summary) = 6
            /\ output.summary[1] = ToString(CountOf(TRUE))
            /\ output.summary[2] = "/"
            /\ output.summary[4] = " targets passed, "
            /\ output.summary[5] = ToString(CountOf(FALSE))
            /\ output.summary[6] = " failed"
            /\ ~cancelled => output.summary[3] = ToString(Len(targets))

C8_Witness ==
    /\ output.returned
    /\ Len(targets) = 3
    /\ CountOf(TRUE) = 2
    /\ CountOf(FALSE) = 1
    /\ output.summary = <<"2", "/", "3", " targets passed, ", "1", " failed">>

\* the failed results gathered so far, as a notification prints them
FailedLines ==
    {[url |-> results[j].url, filePath |-> results[j].filePath,
      error |-> results[j].error] :
        j \in {x \in 1..Len(results) : ~results[x].success}}

\* C9: sendNotification is called at most once, only after every launched
\* batch has completed, exactly when some returned result failed, and what
\* it lists is the failed results and no passed one.
C9_NotificationOnFailureOnly ==
    /\ Len(sent) <= 1
    /\ Len(sent) = 1 =>
          /\ spc \in {"notify", "returned", "failed"}
          /\ InFlight = {}
          /\ FailedLines # {}
          /\ {sent[1].failedTargets[k] : k \in 1..Len(sent[1].failedTargets)}
                = FailedLines
          /\ Len(sent[1].failedTargets) = Cardinality(FailedLines)
    /\ output.returned =>
          /\ output.results = results
          /\ (Len(sent) = 1 <=> FailedLines # {})

C9_Witness ==
    /\ output.returned
    /\ Len(sent) = 1
    /\ Len(sent[1].failedTargets) = 2
    /\ Len(results) = 3
    /\ results[2].success

\* C10: when the sendNotification call fails, visualSwarm does not fail: it
\* still returns its results, allPassed and summary.
C10_NotificationFailureSwallowed ==
    Len(sent) > 0 => spc # "failed"

\* C11: visualEditChild never raises: whatever its activities do, an
\* activity that rejects after the retry policy included, the child returns
\* a TargetResult and does not fail.
C11_ChildNeverRaises ==
    \A c \in ChildIds : child[c].pc # "failed"

\* C12: a child that fails, by returning success = false or by terminating
\* abnormally, leaves its siblings and the run alone: no sibling is closed
\* before it returned and the run does not fail.
C12_ChildFailureStaysLocal ==
    (\E c \in ChildIds : child[c].pc = "failed")
    => /\ spc # "failed"
       /\ \A c \in ChildIds : child[c].pc # "terminated"

\* in the run of child c every call made was an edit that reported failure
EveryEditFailed(c) ==
    /\ Len(child[c].log) >= 1
    /\ \A j \in 1..Len(child[c].log) :
          child[c].log[j].call = "edit" /\ ~child[c].log[j].ok

\* C13: when applyGeminiEdit reports failure in every attempt, no screenshot
\* is taken and no verdict asked for, the history is maxRetries synthetic
\* entries with passed = false and confidence = 0, finalScreenshot is absent,
\* success is false and error is the failure reason of the last edit.
C13_EditAlwaysFails ==
    \A c \in ChildIds :
        (child[c].pc = "returned" /\ maxRetries >= 1 /\ EveryEditFailed(c))
        => LET r == child[c].result
               lastEdit == child[c].log[Len(child[c].log)]
           IN  /\ child[c].renderCalls = 0
               /\ child[c].verifyCalls = 0
               /\ child[c].editCalls = maxRetries
               /\ Len(r.verificationHistory) = maxRetries
               /\ \A k \in 1..Len(r.verificationHistory) :
                     /\ r.verificationHistory[k].passed = FALSE
                     /\ r.verificationHistory[k].confidence = 0
               /\ r.finalScreenshot = Undefined
               /\ r.success = FALSE
               /\ lastEdit.attempt = maxRetries
               /\ r.error = (IF lastEdit.error = <<>> THEN <<"Edit failed">>
                             ELSE lastEdit.error)

C13_Witness ==
    \E c \in ChildIds :
        /\ child[c].pc = "returned"
        /\ maxRetries = 3
        /\ EveryEditFailed(c)
        /\ child[c].log[1].error = <<>>
        /\ child[c].result.error = EditError(3)

\* C15: a returned TargetResult has success = true exactly when its history
\* is non-empty and the last entry of the history has passed = true.
C15_SuccessIffLastPassed ==
    \A c \in ChildIds :
        child[c].pc = "returned"
        => LET h == child[c].result.verificationHistory
           IN  child[c].result.success <=> (Len(h) > 0 /\ h[Len(h)].passed)

C15_Witness ==
    \E c \in ChildIds :
        /\ child[c].pc = "returned"
        /\ child[c].result.success
        /\ Len(child[c].result.verificationHistory) = 2
        /\ ~child[c].result.verificationHistory[1].passed

\* C16: in every returned TargetResult attempts is the length of the history.
C16_AttemptsIsHistoryLength ==
    \A c \in ChildIds :
        child[c].pc = "returned"
        => child[c].result.attempts = Len(child[c].result.verificationHistory)

\* the envs in which the judge is reached and its invocation throws
JudgeDown == {env \in VerifyEnvs : env.judge = "throws"}

\* the verdicts verifyWithAI returns when the judge invocation throws
JudgeDownVerdicts == {verifyWithAI(env, <<>>).verdict : env \in JudgeDown}

\* the history of child c so far
HistoryOf(c) ==
    IF child[c].pc = "returned" THEN child[c].result.verificationHistory
    ELSE IF child[c].pc \in Running THEN child[c].verificationHistory
    ELSE <<>>

\* the first verdict of child c is the one of a verifier whose judge threw
JudgeThrewFirst(c) ==
    /\ Len(HistoryOf(c)) >= 1
    /\ HistoryOf(c)[1] \in JudgeDownVerdicts

\* C14: when the judge invocation throws, verifyWithAI returns passed = true
\* with confidence 0.6, and visualEditChild, edit and render succeeding,
\* returns success = true with attempts = 1 and a history of one entry after
\* one edit, one render and one verify call.
C14_JudgeDownPassesAtOnce ==
    /\ \A env \in JudgeDown : ~verifyWithAI(env, <<>>).raised
    /\ \A verdict \in JudgeDownVerdicts :
          verdict.passed /\ verdict.confidence = 60
    /\ \A c \in ChildIds :
          JudgeThrewFirst(c)
          => /\ child[c].pc = "returned"
             /\ child[c].result.success
             /\ child[c].result.attempts = 1
             /\ Len(child[c].result.verificationHistory) = 1
             /\ child[c].editCalls = 1
             /\ child[c].renderCalls = 1
             /\ child[c].verifyCalls = 1

C14_Witness ==
    \E c \in ChildIds :
        /\ JudgeThrewFirst(c)
        /\ maxRetries = 3
        /\ child[c].pc = "returned"
        /\ child[c].log[3].call = "verify"

\* C19: verifyWithAI never raises, whatever writing the temporary file, the
\* auth lookup, the judge, the removal of the file and the parsing do: it
\* returns a verdict; and when the step that fails is the judge invocation
\* the verdict is the heuristic one: passed, confidence 0.6, with the
\* suggestion to verify manually.
C19_VerifierNeverRaises ==
    vw.pc = "verified"
    => /\ ~vw.out.raised
       /\ vw.out.verdict.passed \in BOOLEAN
       /\ vw.out.verdict.confidence \in 0..100
       /\ vw.env.judge = "throws"
          => /\ vw.out.verdict.passed
             /\ vw.out.verdict.confidence = 60
             /\ vw.out.verdict.suggestions =
                    << <<"Consider manually verifying the visual changes">> >>

C19_Witness ==
    /\ vw.pc = "verified"
    /\ vw.env.judge = "throws"
    /\ vw.env.unlink = "throws"
    /\ vw.out.verdict.passed

\* no object can be located and parsed in the response
Unparseable(response) ==
    ~(JsonMatch(response).found /\ JsonParse(JsonMatch(response).text).ok)

\* some token of the response holds a keyword of success
KeywordFound(response) ==
    \E k \in 1..Len(response) : HasKeyword(response[k])

ParseFailureNoted(verdict) ==
    \E k \in 1..Len(verdict.issues) :
        verdict.issues[k] = <<"Could not parse verification result">>

\* C20 as stated: when no JSON object can be located and parsed,
\* parseVerificationResult decides by the keywords with confidence 0.5 and
\* notes the parse failure in issues, whether the keywords pass or fail.
C20_ParseFailureAlwaysNoted ==
    (vw.pc = "parsed" /\ Unparseable(vw.response))
    => /\ vw.verdict.passed = KeywordFound(vw.response)
       /\ vw.verdict.confidence = 50
       /\ ParseFailureNoted(vw.verdict)

\* C20 amended: when no JSON object can be located and parsed,
\* parseVerificationResult decides by the keywords with confidence 0.5; the
\* parse failure is noted in issues when the keywords fail, and issues is
\* empty when they pass.
C20_ParseFailureNotedOnFail ==
    (vw.pc = "parsed" /\ Unparseable(vw.response))
    => /\ vw.verdict.passed = KeywordFound(vw.response)
       /\ vw.verdict.confidence = 50
       /\ vw.verdict.passed => vw.verdict.issues = <<>>
       /\ ~vw.verdict.passed => ParseFailureNoted(vw.verdict)

C20_Witness ==
    /\ vw.pc = "parsed"
    /\ vw.response = <<"{", "The check PASSED.">>
    /\ vw.verdict.passed
    /\ vw.verdict.issues = <<>>

\* C17: a request accepted by POST and run by visualSwarm has maxRetries >= 1
\* and every TargetResult has attempts in 1..maxRetries.
C17_AcceptedRequestsHaveRetries ==
    portal.post = "200"
    => \A c \in ChildIds :
          child[c].pc = "returned"
          => /\ maxRetries >= 1
             /\ child[c].result.attempts \in 1..maxRetries

FirstObjectAt(response, a) ==
    /\ a \in 1..(Len(response) - 2)
    /\ \A k \in 1..(a - 1) : response[k] # "{"
    /\ response[a] = "{"
    /\ response[a + 1] \in JudgeBodies
    /\ response[a + 2] = "}"

\* C21: when the response holds one well-formed verdict object wrapped in
\* prose, also prose with braces after the object, parseVerificationResult
\* returns the verdict of that object and not the keyword verdict.
C21_FirstObjectIsParsed ==
    vw.pc = "parsed"
    => \A a \in 1..Len(vw.response) :
          FirstObjectAt(vw.response, a)
          => vw.verdict = VerdictOf(ObjectOf(vw.response[a + 1]))

\* the request POST answered is malformed
Malformed(body) ==
    \/ body.stylingInstruction = <<>>
    \/ ~body.targetsGiven
    \/ Len(body.targets) = 0
    \/ body.projectId = <<>>
    \/ \E k \in 1..Len(body.targets) :
          body.targets[k].url = <<>> \/ body.targets[k].filePath = <<>>

\* C22: POST rejects every request with an empty stylingInstruction, missing
\* or empty targets, an empty projectId or a target without url or filePath,
\* and starts no visualSwarm for it; a run exists only after a request that
\* passed the four checks.
C22_MalformedRequestsRejected ==
    /\ (portal.post # "none" /\ Malformed(portal.body))
       => /\ portal.post \in {"400", "401"}
          /\ portal.session => portal.post = "400"
          /\ spc = "unstarted"
          /\ launched = <<>>
    /\ spc # "unstarted"
       => /\ portal.post = "200"
          /\ ~Malformed(portal.body)
          /\ targets = portal.body.targets

C22_Witness ==
    /\ portal.post = "400"
    /\ Len(portal.body.targets) = 2
    /\ portal.body.stylingInstruction # <<>>
    /\ portal.body.projectId # <<>>
    /\ portal.body.targets[1] = TargetPage(1)
    /\ portal.body.targets[2].filePath = <<>>

\* something failed inside the call of parseTargets
ParseTargetsFailed ==
    \/ act.fs.throws
    \/ act.cli = "throws"
    \/ ~(JsonMatch(act.answer).found
         /\ PlanJsonParse(JsonMatch(act.answer).text).ok)

\* C23: on any failure inside parseTargets (the file enumeration, the call of
\* the planning model, or an answer in which no JSON can be parsed) the
\* result is the userInstruction of the caller, no target and confidence 0.
C23_ParseTargetsFailureFallback ==
    (act.pc = "targets parsed" /\ ParseTargetsFailed)
    => /\ act.out.stylingInstruction = act.input.userInstruction
       /\ act.out.targets = <<>>
       /\ act.out.confidence = 0

\* the files the claim's fallback chain names for a successful edit
FallbackChain ==
    IF ~act.diff.throws THEN FilterBoolean(act.diff.stdout)
    ELSE IF ~act.staged.throws /\ FilterBoolean(act.staged.stdout) # <<>>
         THEN FilterBoolean(act.staged.stdout)
         ELSE <<act.input.filePath>>

\* C24: applyGeminiEdit never raises: a failed agent gives success = false,
\* an error and no file; on success filesChanged is the diff against the
\* prior commit, the staged files when there is no such diff, and the
\* requested filePath when that gives no file: it is never empty.
C24_FilesChangedFallback ==
    act.pc = "edited"
    => /\ ~act.out.raised
       /\ act.cli = "throws"
          => /\ ~act.out.success
             /\ act.out.error # Undefined
             /\ act.out.filesChanged = <<>>
       /\ act.out.success
          => /\ act.out.filesChanged = FallbackChain
             /\ act.out.filesChanged # <<>>

LogIs(c, j, call, a, ok) ==
    /\ j \in 1..Len(child[c].log)
    /\ child[c].log[j].call = call
    /\ child[c].log[j].attempt = a
    /\ child[c].log[j].ok = ok

Synthetic(v) == ~v.passed /\ v.confidence = 0

\* C26: in a visualEditChild the screenshot of attempt a is asked for only
\* after the edit of attempt a succeeded, the verdict of attempt a only after
\* the screenshot of attempt a succeeded with an image, which is the image
\* the verifier is given; a failed edit or render pushes one synthetic entry
\* (passed = false, confidence = 0) and the next call, if any, is the edit of
\* the next attempt.
C26_CallsAreGated ==
    \A c \in ChildIds :
        LET st == child[c]
            n == IF st.pc \in Running \cup {"returned"} THEN Len(st.log) ELSE 0
        IN  /\ st.pc = "render"
               => /\ LogIs(c, n, "edit", st.attempt, TRUE)
                  /\ st.args.call = "captureVisualScreenshot"
            /\ st.pc = "verify"
               => /\ LogIs(c, n, "render", st.attempt, TRUE)
                  /\ st.args.call = "verifyWithAI"
                  /\ st.args.screenshotBase64 = Image(st.attempt)
            /\ \A j \in 1..n :
                  /\ st.log[j].call = "render"
                     => LogIs(c, j - 1, "edit", st.log[j].attempt, TRUE)
                  /\ st.log[j].call = "verify"
                     => LogIs(c, j - 1, "render", st.log[j].attempt, TRUE)
                  /\ (st.log[j].call \in {"edit", "render"} /\ ~st.log[j].ok)
                     => /\ Len(HistoryOf(c)) >= st.log[j].attempt
                        /\ Synthetic(HistoryOf(c)[st.log[j].attempt])
                        /\ j < n
                           => LogIs(c, j + 1, "edit", st.log[j].attempt + 1,
                                    st.log[j + 1].ok)

C26_Witness ==
    \E c \in ChildIds :
        /\ child[c].pc = "verify"
        /\ child[c].attempt = 3
        /\ LogIs(c, 1, "edit", 1, FALSE)
        /\ LogIs(c, 3, "render", 2, FALSE)
        /\ LogIs(c, 5, "render", 3, TRUE)

\* C27: when verifyWithAI passes in attempt a the child returns at once with
\* success = true, attempts = a, the image that was verified and the history
\* with that verdict as its last entry; it makes no call afterwards, also
\* when a < maxRetries.
C27_PassReturnsVerifiedImage ==
    [][\A c \in ChildIds :
          /\ (child[c].pc = "verify" /\ child'[c].pc \in Running \cup {"returned"}
               /\ Len(child'[c].log) > Len(child[c].log)
               /\ child'[c].log[Len(child'[c].log)].ok)
             => /\ child'[c].pc = "returned"
                /\ child'[c].result.success
                /\ child'[c].result.attempts = child[c].attempt
                /\ child'[c].result.finalScreenshot =
                      child[c].args.screenshotBase64
                /\ Len(child'[c].result.verificationHistory) =
                      Len(child[c].verificationHistory) + 1
                /\ \A k \in 1..Len(child[c].verificationHistory) :
                      child'[c].result.verificationHistory[k] =
                         child[c].verificationHistory[k]
                /\ child'[c].result.verificationHistory[child[c].attempt].passed
                /\ child'[c].editCalls = child[c].editCalls
                /\ child'[c].renderCalls = child[c].renderCalls
                /\ child'[c].verifyCalls = child[c].verifyCalls
          /\ child[c].pc = "returned"
             => /\ child'[c].pc = "returned"
                /\ child'[c].editCalls = child[c].editCalls
                /\ child'[c].renderCalls = child[c].renderCalls
                /\ child'[c].verifyCalls = child[c].verifyCalls]_vars

C27_Witness ==
    \E c \in ChildIds :
        /\ child[c].pc = "returned"
        /\ child[c].result.success
        /\ child[c].result.attempts = 2
        /\ maxRetries = 3
        /\ child[c].result.finalScreenshot = Image(2)

\* the words of a list of the transcript: None when it is absent or empty
TranscriptList(list) ==
    IF list = UndefinedList \/ list = <<>> THEN <<"None">>
    ELSE Join(list, <<", ">>)

\* the part of the transcript for entry k of history h
TranscriptPart(h, k) ==
    <<"Attempt ", ToString(k), ": ">>
    \o (IF h[k].passed THEN <<"PASSED">> ELSE <<"FAILED">>)
    \o <<"\n", "Observation: ">> \o h[k].observation
    \o <<"\n", "Issues: ">> \o TranscriptList(h[k].issues)
    \o <<"\n", "Suggestions: ">> \o TranscriptList(h[k].suggestions)

RECURSIVE Transcript(_, _)
\* the transcript of the first n entries of history h, in attempt order
Transcript(h, n) ==
    IF n = 1 THEN TranscriptPart(h, 1)
    ELSE Transcript(h, n - 1) \o <<"\n\n">> \o TranscriptPart(h, n)

\* C29: the previousFeedback given to applyGeminiEdit is absent in attempt 1
\* and in attempt a > 1 is the transcript of the a - 1 entries of the
\* history in attempt order, entry i under the label 'Attempt i' with
\* PASSED or FAILED, its observation, issues and suggestions, the synthetic
\* entries of failed edits and renders included.
C29_FeedbackIsWholeTranscript ==
    \A c \in ChildIds :
        child[c].pc = "edit"
        => /\ child[c].args.call = "applyGeminiEdit"
           /\ Len(child[c].verificationHistory) = child[c].attempt - 1
           /\ child[c].args.previousFeedback =
                 (IF child[c].attempt = 1 THEN Undefined
                  ELSE Transcript(child[c].verificationHistory,
                                  child[c].attempt - 1))

C29_Witness ==
    \E c \in ChildIds :
        /\ child[c].pc = "edit"
        /\ child[c].attempt = 3
        /\ LogIs(c, 1, "edit", 1, FALSE)
        /\ LogIs(c, 4, "verify", 2, FALSE)
        /\ child[c].verificationHistory[2].suggestions # <<>>

\* the entries of the log of child c where a screenshot was captured
Captured(c) ==
    {j \in 1..Len(child[c].log) :
        child[c].log[j].call = "render" /\ child[c].log[j].ok}

\* C30: the finalScreenshot of a TargetResult is the image of the most
\* recent attempt whose screenshot was captured, whatever happened to that
\* attempt and the later ones, and it is absent exactly when no screenshot
\* was ever captured.
C30_FinalScreenshotIsLastCaptured ==
    \A c \in ChildIds :
        child[c].pc = "returned"
        => /\ (child[c].result.finalScreenshot = Undefined)
                 <=> (Captured(c) = {})
           /\ Captured(c) # {}
              => LET last == CHOOSE j \in Captured(c) :
                                 \A x \in Captured(c) : x <= j
                 IN  child[c].result.finalScreenshot =
                        Image(child[c].log[last].attempt)

C30_Witness ==
    \E c \in ChildIds :
        /\ child[c].pc = "returned"
        /\ ~child[c].result.success
        /\ LogIs(c, 2, "render", 1, TRUE)
        /\ LogIs(c, 5, "render", 2, TRUE)
        /\ LogIs(c, 7, "edit", 3, FALSE)
        /\ child[c].result.finalScreenshot = Image(2)

\* C28: visualSwarm keeps a barrier between batches: whenever a child of a
\* later batch has been launched, every child of every earlier batch has
\* returned, however the children of a batch interleave.
C28_BatchBarrier ==
    \A j \in 1..Len(launched) : \A k \in 1..Len(launched) :
        launched[j].from < launched[k].from
        => child[launched[j].id].pc = "returned"

C28_Witness ==
    /\ Len(targets) = 3
    /\ concurrency = 2
    /\ Len(launched) = 3
    /\ child[2].pc = "verify"
    /\ child[0].pc = "returned" /\ child[1].pc = "returned"
    /\ child[0].result.success /\ ~child[1].result.success

\* the failure summary of the last activity result child c consumed: the
\* error of the edit or of the render, or the joined issues of the verdict,
\* each with the text the code puts in place of an empty one
LastSummary(c) ==
    LET last == child[c].log[Len(child[c].log)]
        h == child[c].result.verificationHistory
    IN  IF last.call = "edit"
        THEN OrElse(last.error, <<"Edit failed">>)
        ELSE IF last.call = "render"
        THEN OrElse(last.error, <<"Screenshot capture failed">>)
        ELSE OrElse(Join(h[Len(h)].issues, <<"; ">>),
                    <<"Verification failed">>)

\* C31: a visualEditChild that uses up maxRetries >= 1 attempts without a
\* pass returns as error the failure summary of its last attempt, never the
\* one of an earlier attempt; a result with success = true has no error.
C31_ErrorIsLastAttempts ==
    \A c \in ChildIds :
        child[c].pc = "returned"
        => IF child[c].result.success
           THEN child[c].result.error = Undefined
           ELSE maxRetries >= 1
                => /\ Len(child[c].log) >= 1
                   /\ child[c].log[Len(child[c].log)].attempt = maxRetries
                   /\ ~child[c].log[Len(child[c].log)].ok
                   /\ child[c].result.error = LastSummary(c)

C31_Witness ==
    \E c \in ChildIds :
        /\ child[c].pc = "returned"
        /\ maxRetries = 3
        /\ ~child[c].result.success
        /\ child[c].log[1].call = "edit"
        /\ child[c].log[1].error = EditError(1)
        /\ child[c].log[3].call = "render"
        /\ child[c].log[3].error = RenderError(2)
        /\ child[c].log[Len(child[c].log)].call = "verify"
        /\ child[c].result.error =
              <<"issue A #", "3", "; ", "issue B #", "3">>

\* C32: one retry budget is shared by all stages: in any run of
\* visualEditChild the number of applyGeminiEdit calls is at most maxRetries,
\* the number of captureVisualScreenshot calls at most the number of edit
\* calls, and the number of verifyWithAI calls at most the number of
\* screenshot calls.
C32_OneSharedBudget ==
    \A c \in ChildIds :
        child[c].pc \in Running \cup {"returned"}
        => /\ child[c].editCalls <= maxRetries
           /\ child[c].renderCalls <= child[c].editCalls
           /\ child[c].verifyCalls <= child[c].renderCalls

\* the first cancelSwarm signal came when every target had been launched:
\* while the last batch was running, or after it
CancelledTooLate ==
    /\ cancelPoint.seen
    /\ cancelPoint.launched = Len(targets)
    /\ Len(targets) > 0

\* what the run returns when no signal is sent: the result of every target
UncancelledResults == [k \in 1..Len(targets) |-> child[k - 1].result]

PrefixOfRequest(res) ==
    /\ Len(res) <= Len(targets)
    /\ \A j \in 1..Len(res) :
          /\ res[j].url = targets[j].url
          /\ res[j].filePath = targets[j].filePath

\* C34: the results visualSwarm returns are a prefix of the request in
\* target order: entry j has the url and the filePath of target j, in
\* whatever order the children of a batch return.
C34_ResultsArePrefixInOrder ==
    /\ PrefixOfRequest(results)
    /\ output.returned => PrefixOfRequest(output.results)

\* a batch of two children, one failing at its edit and one going through
\* all three stages, was gathered, and a second batch after it
C34_Witness ==
    /\ output.returned
    /\ Len(targets) = 3
    /\ concurrency = 2
    /\ Len(output.results) = 3
    /\ Len(child[0].log) = 3
    /\ Len(child[1].log) = 1
    /\ output.results[1].filePath = TargetPage(1).filePath
    /\ output.results[2].filePath = TargetPage(2).filePath
    /\ output.results[1].success /\ ~output.results[2].success

\* C35: visualSwarm never reports allPassed = true for a run that returned
\* no results; in particular a non-empty request cancelled before its first
\* batch is launched returns allPassed = false.
C35_NoResultsNeverAllPassed ==
    (output.returned /\ Len(output.results) = 0) => ~output.allPassed

\* the summary has the form 'P/T targets passed, F failed' for these numbers
SummaryReads(summary, p, t, f) ==
    summary = <<ToString(p), "/", ToString(t), " targets passed, ",
                ToString(f), " failed">>

\* C36: in every summary of the form 'P/T targets passed, F failed' that
\* visualSwarm returns, P + F = T, runs stopped early by cancellation
\* included.
C36_SummaryNumbersAddUp ==
    output.returned
    => \A p \in 0..MaxTargets : \A t \in 0..MaxTargets : \A f \in 0..MaxTargets :
           SummaryReads(output.summary, p, t, f) => p + f = t

\* C37: visualSwarm terminates for every non-empty request and any integer
\* concurrency, 0 and negative values included: the batch loop makes
\* progress on every iteration, that is every batch it launches and awaits
\* is non-empty.
C37_EveryBatchNonEmpty ==
    spc = "await" => Len(batch) > 0

\* C38: in every verificationHistory that visualEditChild returns at most
\* one entry has passed = true, and if there is one it is the last entry.
C38_OnlyLastEntryPasses ==
    \A c \in ChildIds :
        child[c].pc = "returned"
        => LET h == child[c].result.verificationHistory
           IN  \A k \in 1..Len(h) : h[k].passed => k = Len(h)

C38_Witness ==
    \E c \in ChildIds :
        /\ child[c].pc = "returned"
        /\ Len(child[c].result.verificationHistory) = 3
        /\ child[c].result.verificationHistory[3].passed
        /\ child[c].log[1].call = "edit" /\ ~child[c].log[1].ok
        /\ child[c].log[3].call = "render" /\ ~child[c].log[3].ok
        /\ ~child[c].result.verificationHistory[2].passed

\* the check came after at least criticalCountBeforeShutdown consecutive
\* critical or emergency checks, itself included
AfterEnoughCritical(check) ==
    check.streak >= guardian.config.criticalCountBeforeShutdown

\* the checks for which a shutdown was started: the one just made, the ones
\* of the pending shutdowns and the ones of the stops carried out
ShutdownChecks ==
    {guardian.stops[k].check : k \in 1..Len(guardian.stops)}
    \cup {guardian.ops[k].check :
             k \in {j \in 1..Len(guardian.ops) : guardian.ops[j].kind = "stop"}}
    \cup (IF guardian.last.action = "shutdown" THEN {guardian.last} ELSE {})

\* C39: the guardian stops worker containers on a critical reading only
\* after criticalCountBeforeShutdown consecutive critical or emergency
\* checks, a healthy or warning check resetting the counter to 0; on an
\* emergency reading it starts the shutdown at once; and with
\* enableAutoShutdown = false it never stops or restarts a container,
\* whether the checks come from the timer or from the health endpoint.
C39_ShutdownOnlyWhenDue ==
    guardian.pc = "running"
    => /\ \A check \in ShutdownChecks :
             \/ check.level = "emergency"
             \/ check.level = "critical" /\ AfterEnoughCritical(check)
       /\ \A k \in 1..Len(guardian.stops) :
             IsWorker(guardian.stops[k].container)
       /\ guardian.last.level \in {"healthy", "warning"}
          => guardian.consecutiveCriticalCount = 0
       /\ (guardian.last.level = "emergency"
           /\ guardian.config.enableAutoShutdown)
          => guardian.last.action
                \in {"shutdown", "shutdown already in progress"}
       /\ ~guardian.config.enableAutoShutdown
          => /\ ~guardian.dockerCalled
             /\ guardian.ops = <<>>
             /\ guardian.stops = <<>>
             /\ guardian.running =
                   {AllContainers[k] : k \in 1..Len(AllContainers)}

\* both workers were stopped for the second critical check in a row, made
\* through the endpoint, and the counter was reset
C39_Witness ==
    /\ guardian.pc = "running"
    /\ guardian.config.criticalCountBeforeShutdown = 2
    /\ Len(guardian.stops) = 2
    /\ guardian.stops[2].check.level = "critical"
    /\ guardian.stops[2].check.streak = 2
    /\ guardian.stops[2].check.trigger = "endpoint"
    /\ guardian.running = {AllContainers[1]}
    /\ guardian.ops = <<>>
    /\ guardian.consecutiveCriticalCount = 0
    /\ ~guardian.isShutdownInProgress

\* C40: planAndExecute launches exactly one developFeature child per
\* sub-task of the breakdown, no workflow id being used for two launches of
\* a run, and launches none before the plan is approved or after a cancel
\* signal seen at one of its checkpoints.
C40_OneChildPerSubTask ==
    pae.pc \in {"children", "returned"}
    => /\ \A j \in 1..Len(pae.launches) : \A k \in 1..Len(pae.launches) :
             pae.launches[j].workflowId = pae.launches[k].workflowId
             => j = k
       /\ \A k \in 1..Len(pae.launches) :
             /\ pae.launches[k].approved
             /\ ~pae.launches[k].cancelled
       /\ pae.launches # <<>>
          => \A t \in 1..Len(pae.subTasks) :
                 \E k \in 1..Len(pae.launches) :
                     pae.launches[k].task = pae.subTasks[t]
====
